---------------------------- MODULE Spec2Model ----------------------------
(***************************************************************************)
(* Model of the evaluation core of diarization-benchmark                   *)
(* (src/src/benchmark/evaluation/metrics.py).                              *)
(*                                                                         *)
(* Times are integers counted in units of 1/8 second, so that every value  *)
(* used here (0.0, 2.5, 3.0, the half of the default collar 0.25) is       *)
(* exact, as it is in binary floating point.                               *)
(*                                                                         *)
(* A pyannote Annotation built only through `annotation[segment] = label`  *)
(* is a dictionary from segments to one label (the track name is always    *)
(* "_"): it is modelled as a function from Segment records to labels.      *)
(***************************************************************************)
EXTENDS Integers, Sequences, FiniteSets, TLC

VARIABLES
    rttm_lines,    \* rttm_to_annotation: the lines of the RTTM file
    rttm_idx,      \* number of lines the loop has consumed
    rttm_ann,      \* the Annotation under construction
    rttm_pc,       \* "idle" | "reading" | "returned" | the exception raised
    hyp_record,    \* hypothesis_to_annotation: the hypothesis dictionary
    hyp_idx,       \* number of entries of "segments" the loop has consumed
    hyp_ann,       \* the Annotation under construction
    hyp_pc,        \* "idle" | "reading" | "returned" | the exception raised
    cam_rttm,      \* compute_all_metrics: the lines of the reference RTTM file
    cam_result,    \* what the call of compute_all_metrics gave
    reference,     \* compute_der / compute_jer: the reference Annotation
    hypothesis,    \* the hypothesis Annotation
    collar,        \* collar argument of compute_der, in time units
    skip_overlap,  \* skip_overlap argument of compute_der
    der_result,    \* what compute_der returned for these arguments
    jer_result,    \* what compute_jer returned for these arguments
    base_der,      \* compute_der's result before the hypothesis was relabelled
    base_jer,      \* compute_jer's result before the hypothesis was relabelled
    der_metric,    \* the DiarizationErrorRate object of the latest compute_der
                   \* call, as the call left it
    jer_metric,    \* the JaccardErrorRate object of the latest compute_jer call
    score_log,     \* the compute_der and compute_jer calls that returned so
                   \* far: their arguments and what they returned, in order
    agg_metrics,   \* MetricAggregator: self.metrics, the list of records
    agg_log,       \* the arguments of the add() calls made so far, in order
    add_ret,       \* what the latest add() returned
    per_file_ret,  \* what the latest get_per_file_metrics() returned
    agg_cur,       \* what the latest aggregate() returned
    agg_old,       \* what the aggregate() call before the latest returned
    db,            \* the committed rows of the database, table by table
    db_manager,    \* database.py: the global _db_manager, None or an instance
    managers_made, \* number of DatabaseManager instances constructed so far
    disposed,      \* ids of the instances whose engine was disposed
    mgr_ret,       \* the latest call of get_db_manager / close_db and its outcome
    closing,       \* the close_db() calls suspended in `await _db_manager.close()`:
                   \* the id of the manager each of them is disposing
    lib_components, \* compute_der: what metric.compute_components returned
    sess,          \* DatabaseManager.session(): the session of the running
                   \* `async with` block, its uncommitted work and its calls;
                   \* with the tables, the coroutines suspended at an await
    job,           \* run_and_save.py: the running run_benchmark_with_save
                   \* call and the await it is suspended at
    sched          \* scheduler.py: the event loop, its tasks and the child process

rttmVars == <<rttm_lines, rttm_idx, rttm_ann, rttm_pc>>

hypVars == <<hyp_record, hyp_idx, hyp_ann, hyp_pc>>

camVars == <<cam_rttm, cam_result>>

scoreVars == <<reference, hypothesis, collar, skip_overlap, der_result, jer_result,
               base_der, base_jer, der_metric, jer_metric, score_log>>

aggVars == <<agg_metrics, agg_log, add_ret, per_file_ret, agg_cur, agg_old>>

mgrVars == <<db_manager, managers_made, disposed, mgr_ret, closing>>

coreVars == <<rttmVars, hypVars, camVars, scoreVars, aggVars>>

sysVars == <<db, mgrVars, lib_components, sess, job, sched>>

vars == <<rttmVars, hypVars, camVars, scoreVars, aggVars, sysVars>>

-----------------------------------------------------------------------------
(* Bounds of the model *)

\* Longest RTTM file, in lines.
MaxLines == 3

\* Longest "segments" list of a hypothesis.
MaxEntries == 3

\* Pairs of a reference and a hypothesis: segments in [0, MaxScoreTime], at
\* most MaxScoreTracks segments in the two annotations together.
MaxScoreTime == 2

MaxScoreTracks == 3

\* Pairs scored under several collars: segments in [0, MaxCollarTime], at
\* most MaxCollarTracks segments in the two annotations together.
MaxCollarTime == 3

MaxCollarTracks == 2

\* Conversations scored under several collars: two turns of the reference and
\* two of the hypothesis, one after the other inside [0, MaxTurnTime].
MaxTurnTime == 6

\* SpecAgain: the scoring calls made one after the other.
MaxCalls == 6

\* Most records added to a MetricAggregator, and most aggregate() calls.
MaxRecords == 3

MaxAggregates == 2

\* Most rows ever inserted into the benchmarks and into the datasets table,
\* and into each of the tables below them.
MaxRows == 2

MaxLeafRows == 1

\* Most DatabaseManager instances constructed.
MaxManagers == 3

\* Most `async with db_manager.session()` blocks run one after the other.
MaxSessions == 2

\* Most executions of run_benchmark_with_save, one after the other.
MaxExecutions == 2

\* Most children of the scheduler that find the database within reach; the
\* children after them find it out of reach.
MaxConnections == 1

\* Largest duration, in time units, in the components of a metrics library.
MaxComponent == 1

\* Segments of the scored annotations lie in [0, MaxTime] (time units).
MaxTime == 4

\* Most segments of a reference that is scored against itself or nothing.
MaxSegments == 2

\* Most segments of a reference and a hypothesis together, scored as a pair.
MaxTracks == 3

\* collar: float = 0.25, in time units of 1/8 s.
DefaultCollar == 2

\* One second, in time units (the default 1.0 of "total").
OneSecond == 8

\* Metric values are counted in hundredths: float(1) is 100 of them.
Hundredths == 100

\* NULL in a nullable foreign key column; ids count from 1.
Null == 0

\* The largest number of close_db() calls suspended at one time.
MaxClosing == 2

\* The longest interval of a schedule, in hours.
MaxInterval == 1

\* The largest number of schedules in the configuration file.
MaxSchedules == 2

\* The ticks of an hour: interval_seconds = interval_hours * 3600.
TicksPerHour == 2

\* scheduler.py line 45: timeout=3600 seconds, in ticks.
Timeout == 2

-----------------------------------------------------------------------------
(* pyannote.core Segment and Annotation, as used by metrics.py *)

Segment(start, end) == [start |-> start, end |-> end]

\* Segment.__bool__: a segment is non-empty when end - start > SEGMENT_PRECISION
\* (1e-6 s, below one time unit).
SegmentNonEmpty(seg) == seg.end - seg.start > 0

\* Annotation()
EmptyAnnotation == [seg \in {} |-> ""]

\* annotation[segment] = label : track "_" of the segment is (re)assigned; an
\* empty segment is not added.
SetItem(ann, seg, label) ==
    IF ~SegmentNonEmpty(seg) THEN ann
    ELSE [s \in DOMAIN ann \cup {seg} |-> IF s = seg THEN label ELSE ann[s]]

\* The labelled segments of an annotation (itertracks(yield_label=True)).
Tracks(ann) ==
    {[start |-> s.start, end |-> s.end, label |-> ann[s]] : s \in DOMAIN ann}

-----------------------------------------------------------------------------
(* Text: a line is a sequence of tokens; " " and "\n" are whitespace. *)

Whitespace == {" ", "\n"}

\* Tokens that begin with the character '#'.
HashTokens == {"#", "#SPEAKER"}

RECURSIVE Join(_)
\* The text line holding the given fields separated by one blank.
Join(fields) ==
    IF fields = <<>> THEN <<"\n">>
    ELSE IF Len(fields) = 1 THEN <<fields[1], "\n">>
    ELSE <<Head(fields), " ">> \o Join(Tail(fields))

RECURSIVE LStrip(_)
LStrip(line) ==
    IF line # <<>> /\ Head(line) \in Whitespace THEN LStrip(Tail(line)) ELSE line

RECURSIVE RStrip(_)
RStrip(line) ==
    IF line # <<>> /\ line[Len(line)] \in Whitespace
    THEN RStrip(SubSeq(line, 1, Len(line) - 1)) ELSE line

\* str.strip()
Strip(line) == RStrip(LStrip(line))

IsNotWhitespace(tok) == tok \notin Whitespace

\* str.split()
Split(line) == SelectSeq(line, IsNotWhitespace)

\* str.startswith("#")
StartsWithHash(line) == line # <<>> /\ line[1] \in HashTokens

\* float(token): the tokens of the model that Python accepts as a float, with
\* their value in time units; float() raises ValueError on every other token.
FloatTable ==
    [tok \in {"0.0", "1", "2.5", "3.0"} |->
        CASE tok = "0.0" -> 0
          [] tok = "1"   -> 8
          [] tok = "2.5" -> 20
          [] tok = "3.0" -> 24]

IsFloat(tok) == tok \in DOMAIN FloatTable

Float(tok) == FloatTable[tok]

-----------------------------------------------------------------------------
(* scipy.optimize.linear_sum_assignment, the solver the metrics library     *)
(* uses for the optimal speaker mapping: the shortest augmenting path       *)
(* algorithm of rectangular_lsap, rows and columns numbered from 1 and 0    *)
(* standing for "not assigned".  Its result is a function of the cost       *)
(* matrix alone; among equally good assignments the one it returns depends  *)
(* on the order of the rows and columns.                                    *)

MinOf(S) == CHOOSE x \in S : \A y \in S : x <= y

MaxOf(S) == CHOOSE x \in S : \A y \in S : y <= x

\* remaining[index] = remaining[--num_remaining]
RemoveAt(remaining, index) ==
    LET n == Len(remaining)
    IN  [k \in 1..(n - 1) |-> IF k = index THEN remaining[n] ELSE remaining[k]]

RECURSIVE AugLoop(_, _, _, _, _)
\* The `while (sink == -1)` loop of augmenting_path, from row st.i.
AugLoop(cost, u, v, row4col, st) ==
    LET i     == st.i
        rem   == st.remaining
        cols  == {rem[k] : k \in DOMAIN rem}
        r(j)  == st.minVal + cost[i][j] - u[i] - v[j]
        upd(j) == j \in cols /\ (st.first \/ r(j) < st.spc[j])
        spc   == [j \in DOMAIN v |-> IF upd(j) THEN r(j) ELSE st.spc[j]]
        path  == [j \in DOMAIN v |-> IF upd(j) THEN i ELSE st.path[j]]
        lowest == MinOf({spc[j] : j \in cols})
        its   == {k \in DOMAIN rem : spc[rem[k]] = lowest}
        free  == {k \in its : row4col[rem[k]] = 0}
        index == IF free # {} THEN MaxOf(free) ELSE MinOf(its)
        j     == rem[index]
        next  == [i |-> row4col[j], minVal |-> lowest, first |-> FALSE,
                  remaining |-> RemoveAt(rem, index), spc |-> spc, path |-> path,
                  SR |-> st.SR \cup {i}, SC |-> st.SC \cup {j}]
    IN  IF row4col[j] = 0
        THEN [sink |-> j, minVal |-> lowest, spc |-> spc, path |-> path,
              SR |-> next.SR, SC |-> next.SC]
        ELSE AugLoop(cost, u, v, row4col, next)

\* augmenting_path(nc, cost, u, v, path, row4col, ..., curRow, ...)
AugmentingPath(cost, nc, u, v, row4col, curRow) ==
    AugLoop(cost, u, v, row4col,
            [i |-> curRow, minVal |-> 0, first |-> TRUE,
             remaining |-> [k \in 1..nc |-> nc - k + 1],
             spc |-> [j \in 1..nc |-> 0], path |-> [j \in 1..nc |-> 0],
             SR |-> {}, SC |-> {}])

RECURSIVE Augment(_, _, _, _, _)
\* "augment previous solution": walk the path back from the sink.
Augment(path, col4row, row4col, j, curRow) ==
    LET i  == path[j]
        r4 == [row4col EXCEPT ![j] = i]
        c4 == [col4row EXCEPT ![i] = j]
    IN  IF i = curRow THEN [col4row |-> c4, row4col |-> r4]
        ELSE Augment(path, c4, r4, col4row[i], curRow)

\* The body of the loop `for curRow` after augmenting_path returned ap:
\* "update dual variables" and "augment previous solution".
LsaUpdate(nr, nc, curRow, st, ap) ==
    LET u  == [i \in 1..nr |->
                 IF i = curRow THEN st.u[i] + ap.minVal
                 ELSE IF i \in ap.SR
                      THEN st.u[i] + ap.minVal - ap.spc[st.col4row[i]]
                      ELSE st.u[i]]
        v  == [j \in 1..nc |->
                 IF j \in ap.SC THEN st.v[j] - (ap.minVal - ap.spc[j])
                 ELSE st.v[j]]
        ag == Augment(ap.path, st.col4row, st.row4col, ap.sink, curRow)
    IN  [u |-> u, v |-> v, col4row |-> ag.col4row, row4col |-> ag.row4col]

RECURSIVE LsaRows(_, _, _, _, _)
\* The loop `for curRow` of solve(), for a matrix with nr <= nc.
LsaRows(cost, nr, nc, curRow, st) ==
    IF curRow > nr THEN st.col4row
    ELSE LsaRows(cost, nr, nc, curRow + 1,
                 LsaUpdate(nr, nc, curRow, st,
                           AugmentingPath(cost, nc, st.u, st.v, st.row4col, curRow)))

LsaSolve(cost, nr, nc) ==
    LsaRows(cost, nr, nc, 1,
            [u |-> [i \in 1..nr |-> 0], v |-> [j \in 1..nc |-> 0],
             col4row |-> [i \in 1..nr |-> 0], row4col |-> [j \in 1..nc |-> 0]])

\* linear_sum_assignment(cost) for an nr x nc matrix: the set of assigned
\* (row, column) pairs.  A matrix with more rows than columns is solved
\* transposed.
LinearSumAssignment(cost, nr, nc) ==
    IF nr = 0 \/ nc = 0 THEN {}
    ELSE IF nc < nr
    THEN LET t == [j \in 1..nc |-> [i \in 1..nr |-> cost[i][j]]]
             c == LsaSolve(t, nc, nr)
         IN  {<<c[j], j>> : j \in 1..nc}
    ELSE LET c == LsaSolve(cost, nr, nc)
         IN  {<<i, c[i]>> : i \in 1..nr}

-----------------------------------------------------------------------------
(* pyannote.metrics, as called by compute_der and compute_jer.  Every       *)
(* boundary is a whole number of time units, so a duration is a number of   *)
(* unit cells [t, t+1) and a timeline is the set of the cells it covers.    *)

\* Annotation.labels() sorts the labels as strings.
LabelOrder == <<"A", "B", "C">>

LabelRank(label) == CHOOSE k \in DOMAIN LabelOrder : LabelOrder[k] = label

SortedLabels(S) ==
    [k \in 1..Cardinality(S) |->
        CHOOSE a \in S : Cardinality({b \in S : LabelRank(b) < LabelRank(a)}) = k - 1]

RECURSIVE Gcd(_, _)
Gcd(a, b) == IF b = 0 THEN a ELSE Gcd(b, a % b)

\* The quotient n / d of two durations (d > 0), in lowest terms.
Ratio(n, d) == LET g == Gcd(n, d) IN [num |-> n \div g, den |-> d \div g]

RatioAdd(x, y) == Ratio(x.num * y.den + y.num * x.den, x.den * y.den)

RECURSIVE SumRatios(_)
SumRatios(seq) ==
    IF seq = <<>> THEN Ratio(0, 1) ELSE RatioAdd(Head(seq), SumRatios(Tail(seq)))

RECURSIVE SumFn(_)
\* The sum of the values of a function with a finite domain.
SumFn(f) ==
    IF DOMAIN f = {} THEN 0
    ELSE LET x == CHOOSE y \in DOMAIN f : TRUE
         IN  f[x] + SumFn([y \in DOMAIN f \ {x} |-> f[y]])

\* The cell [t, t+1) lies in the segment.
Covers(seg, t) == seg.start <= t /\ t < seg.end

\* uemify without a uem: the union of the extents of reference and hypothesis.
ExtentCells(ref, hyp) ==
    LET segs == DOMAIN ref \cup DOMAIN hyp
    IN  IF segs = {} THEN {}
        ELSE MinOf({s.start : s \in segs}) .. (MaxOf({s.end : s \in segs}) - 1)

\* extrude, had the collar been laid after the start of every reference
\* segment only.
InCollarAfterStarts(ref, col, t) ==
    LET half == col \div 2
    IN  \E seg \in DOMAIN ref : seg.start <= t /\ t < seg.start + half

\* extrude: a collar of total width `collar` centred on every boundary of a
\* reference segment.
InCollar(ref, col, t) ==
    LET half == col \div 2
    IN  \E seg \in DOMAIN ref : \E b \in {seg.start, seg.end} :
            b - half <= t /\ t < b + half

\* extrude: the intersections of two different reference segments.
InOverlap(ref, t) ==
    Cardinality({seg \in DOMAIN ref : Covers(seg, t)}) >= 2

\* The cells of the evaluation map after extrude().
UemCells(ref, hyp, col, skip) ==
    {t \in ExtentCells(ref, hyp) :
        /\ ~(col > 0 /\ InCollar(ref, col, t))
        /\ ~(skip /\ InOverlap(ref, t))}

\* Number of tracks of the label that are active in cell t.
Count(ann, label, t) ==
    Cardinality({seg \in DOMAIN ann : ann[seg] = label /\ Covers(seg, t)})

\* Number of tracks active in cell t.
Active(ann, t) == Cardinality({seg \in DOMAIN ann : Covers(seg, t)})

\* labels() of annotation.crop(uem)
CroppedLabels(ann, cells) ==
    {ann[seg] : seg \in {x \in DOMAIN ann : \E t \in cells : Covers(x, t)}}

\* Annotation.__mul__: the co-occurrence matrix of the cropped annotations
Cooccurrence(A, la, B, lb, cells) ==
    [i \in DOMAIN la |-> [j \in DOMAIN lb |->
        LET both(t) == Count(A, la[i], t) * Count(B, lb[j], t)
        IN  SumFn([t \in cells |-> both(t)])]]

\* A mapping that is not one-to-one: every label of la goes to the first of lb.
MappingOfAllToFirst(la, lb, pairs) ==
    IF lb = <<>> THEN [a \in {} |-> ""]
    ELSE [a \in {la[k] : k \in DOMAIN la} |-> lb[1]]

\* The dictionary {la[i]: lb[j]} of the assigned pairs (i, j).
MappingOf(la, lb, pairs) ==
    [a \in {la[p[1]] : p \in pairs} |-> lb[(CHOOSE p \in pairs : la[p[1]] = a)[2]]]

\* HungarianMapper.__call__(A, B): a one-to-one mapping from labels of A to
\* labels of B that maximises the total co-occurrence; pairs that never
\* co-occur are left out.
HungarianMapper(A, B, cells) ==
    LET la == SortedLabels(CroppedLabels(A, cells))
        lb == SortedLabels(CroppedLabels(B, cells))
        K  == Cooccurrence(A, la, B, lb, cells)
        cost == [i \in DOMAIN la |-> [j \in DOMAIN lb |-> 0 - K[i][j]]]
    IN  MappingOf(la, lb, {p \in LinearSumAssignment(cost, Len(la), Len(lb)) :
                              K[p[1]][p[2]] > 0})

\* IdentificationErrorRate.compute_components on the hypothesis relabelled by
\* the mapping: the LabelMatcher counts of every cell.
IdentificationComponents(ref, hyp, mapping, cells) ==
    LET NA(t)   == Active(ref, t)
        NB(t)   == Active(hyp, t)
        matched(t) ==
            LET one(h) == IF Count(ref, mapping[h], t) < Count(hyp, h, t)
                          THEN Count(ref, mapping[h], t)
                          ELSE Count(hyp, h, t)
            IN  SumFn([h \in DOMAIN mapping |-> one(h)])
        paired(t) == IF NA(t) < NB(t) THEN NA(t) ELSE NB(t)
        confusion(t) == paired(t) - matched(t)
        miss(t) == NA(t) - paired(t)
        falarm(t) == NB(t) - paired(t)
    IN  ("total" :> SumFn([t \in cells |-> NA(t)])) @@
        ("correct" :> SumFn([t \in cells |-> matched(t)])) @@
        ("confusion" :> SumFn([t \in cells |-> confusion(t)])) @@
        ("missed detection" :> SumFn([t \in cells |-> miss(t)])) @@
        ("false alarm" :> SumFn([t \in cells |-> falarm(t)]))

\* The components inside the evaluation map: the optimal mapping of the
\* hypothesis labels, then the identification components.
MappedComponents(ref, hyp, cells) ==
    IdentificationComponents(ref, hyp, HungarianMapper(hyp, ref, cells), cells)

\* DiarizationErrorRate.compute_components(reference, hypothesis)
DerComponents(ref, hyp, col, skip) ==
    MappedComponents(ref, hyp, UemCells(ref, hyp, col, skip))

\* compute_metric, had it reported 1 whenever the total is 0.
DerMetricUndefinedIsOne(detail) ==
    IF detail["total"] = 0 THEN Ratio(1, 1)
    ELSE Ratio(detail["confusion"] + detail["false alarm"] + detail["missed detection"],
               detail["total"])

\* IdentificationErrorRate.compute_metric
DerMetric(detail) ==
    LET numerator == detail["confusion"] + detail["false alarm"] + detail["missed detection"]
        denominator == detail["total"]
    IN  IF denominator = 0
        THEN (IF numerator = 0 THEN Ratio(0, 1) ELSE Ratio(1, 1))
        ELSE Ratio(numerator, denominator)

\* The cells covered by the tracks of one label (label_timeline().support()).
LabelCells(ann, label, cells) == {t \in cells : Count(ann, label, t) > 0}

\* JaccardErrorRate.compute_components (collar 0.0, no overlap skipped): the
\* mapping goes from reference speakers to hypothesis speakers, and only the
\* reference speakers are counted.
JerMappedErrors(ref, hyp, mapping, cells) ==
    LET speakers == SortedLabels(CroppedLabels(ref, cells))
        jer(ref_speaker) ==
            IF ref_speaker \notin DOMAIN mapping THEN Ratio(1, 1)
            ELSE LET r == LabelCells(ref, ref_speaker, cells)
                     h == LabelCells(hyp, mapping[ref_speaker], cells)
                     total == Cardinality(r \cup h)
                     fa    == Cardinality(h) - Cardinality(h \cap r)
                     miss  == Cardinality(r) - Cardinality(r \cap h)
                 IN  Ratio(fa + miss, total)
    IN  [k \in DOMAIN speakers |-> jer(speakers[k])]

JerCellErrors(ref, hyp, cells) ==
    JerMappedErrors(ref, hyp, HungarianMapper(ref, hyp, cells), cells)

JerSpeakerErrors(ref, hyp) == JerCellErrors(ref, hyp, UemCells(ref, hyp, 0, FALSE))

\* JaccardErrorRate.compute_metric: speaker error / speaker count, which
\* divides by zero when the reference has no speaker.
JerMetric(errors) ==
    IF Len(errors) = 0 THEN [raised |-> "ZeroDivisionError", value |-> Ratio(0, 1)]
    ELSE LET sum == SumRatios(errors)
         IN  [raised |-> "None", value |-> Ratio(sum.num, sum.den * Len(errors))]

-----------------------------------------------------------------------------
(* DiarizationMetrics.rttm_to_annotation *)

\* `if not line or line.startswith("#"): continue`, on the stripped line
IsBlankOrComment(stripped) == stripped = <<>> \/ StartsWithHash(stripped)

\* The guard without its test of the first field.
NotSpeakerRecordShortOnly(parts) == Len(parts) < 8

\* `if len(parts) < 8 or parts[0] != "SPEAKER": continue`
NotSpeakerRecord(parts) == Len(parts) < 8 \/ parts[1] # "SPEAKER"

\* The line is skipped by one of the two `continue` statements.
LineSkipped(line) ==
    IsBlankOrComment(Strip(line)) \/ NotSpeakerRecord(Split(Strip(line)))

\* float(parts[3]) or float(parts[4]) raises ValueError.
LineRaises(line) ==
    LET parts == Split(Strip(line))
    IN  ~LineSkipped(line) /\ (~IsFloat(parts[4]) \/ ~IsFloat(parts[5]))

\* Segment(start, start + duration) of a line that reaches line 45.
LineSegment(line) ==
    LET parts    == Split(Strip(line))
        start    == Float(parts[4])
        duration == Float(parts[5])
    IN  Segment(start, start + duration)

\* speaker = parts[7]
LineSpeaker(line) == Split(Strip(line))[8]

\* One iteration of `for line in f`: the annotation after it, or the exception.
RttmLoopBody(ann, line) ==
    IF LineSkipped(line) THEN [raised |-> "None", ann |-> ann]
    ELSE IF LineRaises(line) THEN [raised |-> "ValueError"]
    ELSE [raised |-> "None",
          ann |-> SetItem(ann, LineSegment(line), LineSpeaker(line))]

RECURSIVE RttmLoop(_, _)
RttmLoop(ann, lines) ==
    IF lines = <<>> THEN [raised |-> "None", ann |-> ann]
    ELSE LET step == RttmLoopBody(ann, Head(lines))
         IN  IF step.raised # "None" THEN step ELSE RttmLoop(step.ann, Tail(lines))

\* rttm_to_annotation(rttm_path) as one call: the annotation it returns, or
\* the exception it raises.
rttm_to_annotation(lines) == RttmLoop(EmptyAnnotation, lines)

\* One iteration of `for line in f`.
ReadLine ==
    /\ rttm_pc = "reading"
    /\ rttm_idx < Len(rttm_lines)
    /\ LET step == RttmLoopBody(rttm_ann, rttm_lines[rttm_idx + 1])
       IN  IF step.raised # "None"
           THEN /\ rttm_pc' = step.raised
                /\ UNCHANGED <<rttm_idx, rttm_ann>>
           ELSE /\ rttm_ann' = step.ann
                /\ rttm_idx' = rttm_idx + 1
                /\ UNCHANGED rttm_pc
    /\ UNCHANGED <<rttm_lines, hypVars, camVars, scoreVars, aggVars, sysVars>>

\* The loop ends at the end of the file: `return annotation`.
RttmReturn ==
    /\ rttm_pc = "reading"
    /\ rttm_idx = Len(rttm_lines)
    /\ rttm_pc' = "returned"
    /\ UNCHANGED <<rttm_lines, rttm_idx, rttm_ann, hypVars, camVars, scoreVars, aggVars, sysVars>>

-----------------------------------------------------------------------------
(* DiarizationMetrics.hypothesis_to_annotation *)

\* hypothesis.get("segments", [])
SegmentsOf(record) ==
    IF "segments" \in DOMAIN record THEN record["segments"] ELSE <<>>

\* The three subscripts of the loop body, in order; the first key that is
\* absent raises KeyError.
EntryRaises(entry) ==
    "start" \notin DOMAIN entry \/ "end" \notin DOMAIN entry
        \/ "speaker" \notin DOMAIN entry

\* The loop body, had it passed over an entry that lacks a key.
HypLoopBodySkipping(ann, entry) ==
    IF EntryRaises(entry) THEN [raised |-> "None", ann |-> ann]
    ELSE [raised |-> "None",
          ann |-> SetItem(ann, Segment(entry["start"], entry["end"]), entry["speaker"])]

\* One iteration of `for segment_data in ...`.
HypLoopBody(ann, entry) ==
    IF EntryRaises(entry) THEN [raised |-> "KeyError"]
    ELSE [raised |-> "None",
          ann |-> SetItem(ann, Segment(entry["start"], entry["end"]), entry["speaker"])]

RECURSIVE HypLoop(_, _)
HypLoop(ann, entries) ==
    IF entries = <<>> THEN [raised |-> "None", ann |-> ann]
    ELSE LET step == HypLoopBody(ann, Head(entries))
         IN  IF step.raised # "None" THEN step ELSE HypLoop(step.ann, Tail(entries))

\* hypothesis_to_annotation(hypothesis) as one call.
hypothesis_to_annotation(record) == HypLoop(EmptyAnnotation, SegmentsOf(record))

ReadEntry ==
    /\ hyp_pc = "reading"
    /\ hyp_idx < Len(SegmentsOf(hyp_record))
    /\ LET step == HypLoopBody(hyp_ann, SegmentsOf(hyp_record)[hyp_idx + 1])
       IN  IF step.raised # "None"
           THEN /\ hyp_pc' = step.raised
                /\ UNCHANGED <<hyp_idx, hyp_ann>>
           ELSE /\ hyp_ann' = step.ann
                /\ hyp_idx' = hyp_idx + 1
                /\ UNCHANGED hyp_pc
    /\ UNCHANGED <<hyp_record, rttmVars, camVars, scoreVars, aggVars, sysVars>>

HypReturn ==
    /\ hyp_pc = "reading"
    /\ hyp_idx = Len(SegmentsOf(hyp_record))
    /\ hyp_pc' = "returned"
    /\ UNCHANGED <<hyp_record, hyp_idx, hyp_ann, rttmVars, camVars, scoreVars, aggVars, sysVars>>

-----------------------------------------------------------------------------
(* DiarizationMetrics.compute_der, compute_jer, compute_all_metrics *)

\* dict.get(key, default)
Get(d, key, default) == IF key \in DOMAIN d THEN d[key] ELSE default

NoResult == [called |-> FALSE]

\* The result dictionary, had it read "confusion" from the key "correct".
DerResultWrongKey(der_value, components) ==
    [called |-> TRUE,
     DER |-> der_value,
     miss |-> Get(components, "false negative", Get(components, "miss", 0)),
     false_alarm |-> Get(components, "false positive", Get(components, "false alarm", 0)),
     confusion |-> Get(components, "correct", 0),
     total |-> Get(components, "total", OneSecond)]

\* The result dictionary, had it replaced a total of 0 by the default 1.0.
DerResultTotalOrOne(der_value, components) ==
    [called |-> TRUE,
     DER |-> der_value,
     miss |-> Get(components, "false negative", Get(components, "miss", 0)),
     false_alarm |-> Get(components, "false positive", Get(components, "false alarm", 0)),
     confusion |-> Get(components, "confusion", 0),
     total |-> IF Get(components, "total", 0) = 0 THEN OneSecond
               ELSE components["total"]]

\* The result dictionary, had "miss" been looked up before "false negative".
DerResultMissFirst(der_value, components) ==
    [called |-> TRUE,
     DER |-> der_value,
     miss |-> Get(components, "miss", Get(components, "false negative", 0)),
     false_alarm |-> Get(components, "false positive", Get(components, "false alarm", 0)),
     confusion |-> Get(components, "confusion", 0),
     total |-> Get(components, "total", OneSecond)]

\* The result dictionary of compute_der: "miss" is looked up under
\* "false negative", then "miss"; "false_alarm" under "false positive", then
\* "false alarm".
DerResult(der_value, components) ==
    [called |-> TRUE,
     DER |-> der_value,
     miss |-> Get(components, "false negative", Get(components, "miss", 0)),
     false_alarm |-> Get(components, "false positive", Get(components, "false alarm", 0)),
     confusion |-> Get(components, "confusion", 0),
     total |-> Get(components, "total", OneSecond)]

\* No metric object.
NoMetric == [none |-> TRUE]

\* DiarizationErrorRate(collar=collar, skip_overlap=skip_overlap): a new
\* metric object, with nothing accumulated and no result kept.
DiarizationErrorRate(col, skip) ==
    [collar |-> col, skip_overlap |-> skip,
     accumulated |-> [k \in {"total", "correct", "confusion", "missed detection",
                             "false alarm"} |-> 0],
     results |-> <<>>]

\* JaccardErrorRate()
JaccardErrorRate == [results |-> <<>>]

\* What a DiarizationErrorRate object keeps of a pair and returns for it.
DerKept(metric, components) ==
    [metric |-> [metric EXCEPT
                    !.accumulated = [k \in DOMAIN @ |-> @[k] + components[k]],
                    !.results = Append(@, components)],
     value |-> DerMetric(components)]

\* metric(reference, hypothesis) of a DiarizationErrorRate: the components
\* of the pair are computed, kept in results_ and added to accumulated_, and
\* the value of these components is returned.
DerCall(metric, ref, hyp) ==
    CHOOSE out \in {DerKept(metric, components) :
                       components \in {DerComponents(ref, hyp, metric.collar,
                                                     metric.skip_overlap)}} : TRUE

\* What a JaccardErrorRate object keeps of a pair and returns for it; a
\* metric that raises keeps nothing.
JerKept(metric, errors) ==
    [metric |-> IF JerMetric(errors).raised # "None" THEN metric
                ELSE [metric EXCEPT !.results = Append(@, errors)],
     value |-> JerMetric(errors)]

\* metric(reference, hypothesis) of a JaccardErrorRate.
JerCall(metric, ref, hyp) ==
    CHOOSE out \in {JerKept(metric, errors) :
                       errors \in {JerSpeakerErrors(ref, hyp)}} : TRUE

\* The metric object of a compute_der call, had the one of the call before
\* been kept for the same collar and skip_overlap.
DerMetricKept(kept, col, skip) ==
    IF kept # NoMetric /\ kept.collar = col /\ kept.skip_overlap = skip
    THEN kept
    ELSE DiarizationErrorRate(col, skip)

\* Line 91: the metric object of a compute_der call is a new one, whatever
\* object the call before has left.
DerMetricOf(kept, col, skip) == DiarizationErrorRate(col, skip)

\* Line 123: the same for compute_jer.
JerMetricOf(kept) == JaccardErrorRate

\* metric = DiarizationErrorRate(...), der_value = metric(reference,
\* hypothesis), then components = metric.compute_components(reference,
\* hypothesis), which keeps nothing in the object.
compute_der(ref, hyp, col, skip) ==
    DerResult(DerCall(DiarizationErrorRate(col, skip), ref, hyp).value,
              DerComponents(ref, hyp, col, skip))

\* {"JER": float(jer_value)}, or the exception of the metric.
JerResult(jer_value) ==
    [called |-> TRUE, raised |-> jer_value.raised, JER |-> jer_value.value]

\* metric = JaccardErrorRate(), jer_value = metric(reference, hypothesis)
compute_jer(ref, hyp) == JerResult(JerCall(JaccardErrorRate, ref, hyp).value)

\* result = {**der_metrics, **jer_metrics}
MergeMetrics(der_metrics, jer_metrics) ==
    IF jer_metrics.raised # "None"
    THEN [called |-> TRUE, raised |-> jer_metrics.raised]
    ELSE [called |-> TRUE, raised |-> "None",
          metrics |-> [DER |-> der_metrics.DER, miss |-> der_metrics.miss,
                       false_alarm |-> der_metrics.false_alarm,
                       confusion |-> der_metrics.confusion,
                       total |-> der_metrics.total, JER |-> jer_metrics.JER]]

\* compute_all_metrics once both conversions were attempted: the exception
\* of the first that raised, or the merged metrics.
ScoreConverted(ref, hyp, col, skip) ==
    IF ref.raised # "None" THEN [called |-> TRUE, raised |-> ref.raised]
    ELSE IF hyp.raised # "None" THEN [called |-> TRUE, raised |-> hyp.raised]
    ELSE MergeMetrics(compute_der(ref.ann, hyp.ann, col, skip),
                      compute_jer(ref.ann, hyp.ann))

\* compute_all_metrics(reference_rttm, hypothesis, collar, skip_overlap): the
\* exception of the first call that raises, or the merged dictionaries.
compute_all_metrics(lines, record, col, skip) ==
    ScoreConverted(rttm_to_annotation(lines), hypothesis_to_annotation(record),
                   col, skip)

\* A call of compute_der on the arguments of the state.
ComputeDer ==
    /\ ~der_result.called
    /\ \E called \in {DerCall(DerMetricOf(der_metric, collar, skip_overlap),
                                reference, hypothesis)} :
       \E result \in {DerResult(called.value,
                                DerComponents(reference, hypothesis, collar,
                                              skip_overlap))} :
           /\ der_result' = result
           /\ der_metric' = called.metric
           /\ score_log' = Append(score_log,
                                  [call |-> "compute_der", reference |-> reference,
                                   hypothesis |-> hypothesis, collar |-> collar,
                                   skip_overlap |-> skip_overlap, result |-> result])
    /\ UNCHANGED <<reference, hypothesis, collar, skip_overlap, jer_result, jer_metric,
                   base_der, base_jer, rttmVars, hypVars, camVars, aggVars, sysVars>>

\* A call of compute_jer on the arguments of the state.
ComputeJer ==
    /\ ~jer_result.called
    /\ \E called \in {JerCall(JerMetricOf(jer_metric), reference, hypothesis)} :
           /\ jer_result' = JerResult(called.value)
           /\ jer_metric' = called.metric
           /\ score_log' = Append(score_log,
                                  [call |-> "compute_jer", reference |-> reference,
                                   hypothesis |-> hypothesis,
                                   result |-> JerResult(called.value)])
    /\ UNCHANGED <<reference, hypothesis, collar, skip_overlap, der_result, der_metric,
                   base_der, base_jer, rttmVars, hypVars, camVars, aggVars, sysVars>>

\* compute_der from line 97 on, with a metrics library whose
\* compute_components returns lib_components.
ComputeDerFrom ==
    /\ ~der_result.called
    /\ \E der_value \in {Ratio(0, 1), Ratio(1, 2)} :
          der_result' = DerResult(der_value, lib_components)
    /\ UNCHANGED <<reference, hypothesis, collar, skip_overlap, jer_result,
                   base_der, base_jer, der_metric, jer_metric, score_log,
                   lib_components, db, mgrVars, sess, job, sched,
                   rttmVars, hypVars, camVars, aggVars>>

\* A caller scores the same files with the default collar.
ComputeAllMetrics ==
    /\ ~cam_result.called
    /\ cam_result' = compute_all_metrics(cam_rttm, hyp_record, DefaultCollar, FALSE)
    /\ UNCHANGED <<cam_rttm, rttmVars, hypVars, scoreVars, aggVars, sysVars>>

\* rename_labels: every label of the annotation is replaced by its image.
RenameLabels(ann, renaming) == [seg \in DOMAIN ann |-> renaming[ann[seg]]]

LabelSet == {LabelOrder[k] : k \in DOMAIN LabelOrder}

Bijections == {f \in [LabelSet -> LabelSet] : \A a, b \in LabelSet : f[a] = f[b] => a = b}

\* The hypothesis is relabelled and scored again; the earlier results are kept
\* for comparison.
Relabel ==
    /\ der_result.called /\ jer_result.called
    /\ ~base_der.called
    /\ \E renaming \in Bijections : hypothesis' = RenameLabels(hypothesis, renaming)
    /\ base_der' = der_result
    /\ base_jer' = jer_result
    /\ der_result' = NoResult
    /\ jer_result' = NoResult
    /\ UNCHANGED <<reference, collar, skip_overlap, der_metric, jer_metric, score_log,
                   rttmVars, hypVars, camVars, aggVars, sysVars>>

CollarSet == {0, DefaultCollar}

\* What the files of the model hold, as annotations: nothing, one turn of
\* speaker A, or a turn twice as long of speaker B.
FileAnnotations ==
    {EmptyAnnotation,
     [seg \in {Segment(0, MaxScoreTime)} |-> "A"],
     [seg \in {Segment(0, 2 * MaxScoreTime)} |-> "B"]}

\* run_and_save.py lines 152-168: the loop goes on to its next file, reads a
\* new reference and a new hypothesis and scores them with both metrics,
\* under the default collar and skip_overlap.
ScoreNext ==
    /\ der_result.called /\ jer_result.called
    /\ Len(score_log) < MaxCalls
    /\ reference' \in FileAnnotations
    /\ hypothesis' \in FileAnnotations
    /\ collar' = DefaultCollar
    /\ skip_overlap' = FALSE
    /\ der_result' = NoResult
    /\ jer_result' = NoResult
    /\ UNCHANGED <<base_der, base_jer, der_metric, jer_metric, score_log,
                   rttmVars, hypVars, camVars, aggVars, sysVars>>

\* compute_all_metrics is called next, lines 150-157: a new reference and a
\* new hypothesis, scored under the collar and the skip_overlap of the caller.
AllMetricsNext ==
    /\ der_result.called /\ jer_result.called
    /\ Len(score_log) < MaxCalls
    /\ reference' \in FileAnnotations
    /\ hypothesis' \in FileAnnotations
    /\ collar' \in CollarSet
    /\ skip_overlap' \in BOOLEAN
    /\ der_result' = NoResult
    /\ jer_result' = NoResult
    /\ UNCHANGED <<base_der, base_jer, der_metric, jer_metric, score_log,
                   rttmVars, hypVars, camVars, aggVars, sysVars>>

-----------------------------------------------------------------------------
(* MetricAggregator.  A metric value is a record with its Python type; the   *)
(* statistics are exact fractions of hundredths, and a standard deviation is *)
(* kept as the fraction it is the square root of.                            *)

FloatValue(h) == [type |-> "float", value |-> h]

IntValue(n) == [type |-> "int", value |-> n]

StrValue(text) == [type |-> "str", text |-> text]

NoneValue == [type |-> "NoneType"]

\* isinstance(value, (int, float)), had it accepted floats only.
IsFloatOnly(value) == value.type = "float"

\* isinstance(value, (int, float))
IsNumber(value) == value.type \in {"int", "float"}

\* float(value)
FloatOf(value) == IF value.type = "int" THEN value.value * Hundredths ELSE value.value

RECURSIVE CollectValues(_, _)
\* metric_values[metric_name]: the numeric values of the name, in the order
\* of the records.
CollectValues(items, metric_name) ==
    IF items = <<>> THEN <<>>
    ELSE (IF metric_name \in DOMAIN Head(items).metrics
             /\ IsNumber(Head(items).metrics[metric_name])
          THEN <<FloatOf(Head(items).metrics[metric_name])>>
          ELSE <<>>) \o CollectValues(Tail(items), metric_name)

\* The keys of metric_values.
CollectedNames(items) ==
    UNION {{name \in DOMAIN items[i].metrics : IsNumber(items[i].metrics[name])} :
             i \in DOMAIN items}

RECURSIVE SumSeq(_)
SumSeq(values) == IF values = <<>> THEN 0 ELSE Head(values) + SumSeq(Tail(values))

SquaresOf(values) == [i \in DOMAIN values |-> values[i] * values[i]]

\* statistics.mean(values)
Mean(values) == Ratio(SumSeq(values), Len(values))

\* statistics.stdev(values) if len(values) > 1 else 0.0
Stdev(values) ==
    IF Len(values) > 1
    THEN [sqrt_of |-> Ratio(Len(values) * SumSeq(SquaresOf(values))
                                - SumSeq(values) * SumSeq(values),
                            Len(values) * (Len(values) - 1))]
    ELSE [sqrt_of |-> Ratio(0, 1)]

\* The middle of the sorted values: statistics.median(values).
MiddleOf(sorted) ==
    IF Len(sorted) % 2 = 1 THEN Ratio(sorted[(Len(sorted) + 1) \div 2], 1)
    ELSE Ratio(sorted[Len(sorted) \div 2] + sorted[Len(sorted) \div 2 + 1], 2)

Median(values) == MiddleOf(SortSeq(values, <))

ValueSet(values) == {values[i] : i \in DOMAIN values}

\* The five entries of `aggregated` for one metric name.
StatsOf(metric_name, values) ==
    ((metric_name \o "_mean") :> Mean(values)) @@
    ((metric_name \o "_std") :> Stdev(values)) @@
    ((metric_name \o "_min") :> Ratio(MinOf(ValueSet(values)), 1)) @@
    ((metric_name \o "_max") :> Ratio(MaxOf(ValueSet(values)), 1)) @@
    ((metric_name \o "_median") :> Median(values))

RECURSIVE AggregatedOver(_, _)
\* The loop `for metric_name, values in metric_values.items()`.
AggregatedOver(items, names) ==
    IF names = {} THEN [k \in {} |-> 0]
    ELSE LET name == CHOOSE n \in names : TRUE
         IN  StatsOf(name, CollectValues(items, name))
                 @@ AggregatedOver(items, names \ {name})

\* MetricAggregator.aggregate() on the records `items`.
aggregate(items) ==
    IF items = <<>> THEN [k \in {} |-> 0]
    ELSE AggregatedOver(items, CollectedNames(items)) @@ ("num_files" :> Len(items))

\* self.metrics.append(...), had it replaced the record of the same file_id.
add_replacing(items, metrics, file_id) ==
    IF \E i \in DOMAIN items : items[i].file_id = file_id
    THEN [i \in DOMAIN items |->
            IF items[i].file_id = file_id
            THEN [metrics |-> metrics, file_id |-> file_id] ELSE items[i]]
    ELSE Append(items, [metrics |-> metrics, file_id |-> file_id])

\* self.metrics.append({"metrics": metrics, "file_id": file_id})
add(items, metrics, file_id) ==
    Append(items, [metrics |-> metrics, file_id |-> file_id])

\* The (metrics, file_id) arguments add() is called with; a file_id of None
\* is the string "None".
AddInputs ==
    {[metrics |-> ("DER" :> FloatValue(10)), file_id |-> "f1"],
     [metrics |-> ("DER" :> FloatValue(20)), file_id |-> "f2"],
     [metrics |-> ("DER" :> FloatValue(30)), file_id |-> "None"],
     [metrics |-> ("DER" :> FloatValue(20)) @@ ("JER" :> IntValue(1))
                      @@ ("note" :> StrValue("n/a")),
      file_id |-> "f1"],
     [metrics |-> ("DER" :> NoneValue) @@ ("JER" :> FloatValue(30)),
      file_id |-> "f3"]}

\* add(metrics, file_id)
Add ==
    /\ Len(agg_metrics) < MaxRecords
    /\ \E input \in AddInputs :
          /\ agg_metrics' = add(agg_metrics, input.metrics, input.file_id)
          /\ agg_log' = Append(agg_log, <<input.metrics, input.file_id>>)
    /\ add_ret' = [called |-> TRUE, value |-> "None"]
    /\ UNCHANGED <<per_file_ret, agg_cur, agg_old,
                   rttmVars, hypVars, camVars, scoreVars, sysVars>>

\* The identity of the mapping the next aggregate() call builds.
NextId == IF agg_cur.called THEN agg_cur.id + 1 ELSE 1

\* aggregate(): the mapping returned, its identity, and the number of add()
\* calls made before it.
AggregateAndClear ==
    /\ NextId <= MaxAggregates
    /\ agg_cur' = [called |-> TRUE, id |-> NextId, value |-> aggregate(agg_metrics),
                   adds |-> Len(agg_log)]
    /\ agg_old' = agg_cur
    /\ agg_metrics' = <<>>
    /\ UNCHANGED <<agg_log, add_ret, per_file_ret,
                   rttmVars, hypVars, camVars, scoreVars, sysVars>>

Aggregate ==
    /\ NextId <= MaxAggregates
    /\ agg_cur' = [called |-> TRUE, id |-> NextId, value |-> aggregate(agg_metrics),
                   adds |-> Len(agg_log)]
    /\ agg_old' = agg_cur
    /\ UNCHANGED <<agg_metrics, agg_log, add_ret, per_file_ret,
                   rttmVars, hypVars, camVars, scoreVars, sysVars>>

\* get_per_file_metrics(): `return self.metrics`, the list object itself.
GetPerFileMetrics ==
    /\ ~per_file_ret.called
    /\ per_file_ret' = [called |-> TRUE, object |-> "self.metrics"]
    /\ UNCHANGED <<agg_metrics, agg_log, add_ret, agg_cur, agg_old,
                   rttmVars, hypVars, camVars, scoreVars, sysVars>>

\* The list a returned reference stands for.
Deref(object) == IF object = "self.metrics" THEN agg_metrics ELSE <<>>

-----------------------------------------------------------------------------
(* The database of benchmark.core.models.  A table is the set of its rows,   *)
(* db.seq[table] the last id its autoincrement sequence gave out, and        *)
(* db.created tells whether the tables exist.                                *)

Tables == {"benchmarks", "datasets", "audio_files", "annotations", "runs", "results"}

\* The tables of Base.metadata, just created.
EmptyDb ==
    [rows |-> [t \in Tables |-> {}], seq |-> [t \in Tables |-> 0], created |-> TRUE]

Ids(d, table) == {r.id : r \in d.rows[table]}

\* The constraints the tables declare for a new row: the unique
\* benchmarks.name, and the foreign keys, all NOT NULL but results.audio_file_id.
ConstraintsHold(d, table, row) ==
    CASE table = "benchmarks" -> \A b \in d.rows["benchmarks"] : b.name # row.name
      [] table = "datasets" -> row.benchmark_id \in Ids(d, "benchmarks")
      [] table = "audio_files" -> row.dataset_id \in Ids(d, "datasets")
      [] table = "annotations" -> row.audio_file_id \in Ids(d, "audio_files")
      [] table = "runs" -> row.dataset_id \in Ids(d, "datasets")
      [] table = "results" ->
            /\ row.run_id \in Ids(d, "runs")
            /\ row.audio_file_id \in Ids(d, "audio_files") \cup {Null}

\* INSERT of `row`, which gets the next id of the table's sequence.
InsertRow(d, table, row) ==
    [d EXCEPT !.rows[table] = @ \cup {row @@ [id |-> d.seq[table] + 1]},
              !.seq[table] = @ + 1]

\* What is left of uncommitted work: the sequences are not transactional.
Discard(d, work) == [d EXCEPT !.seq = work.seq]

\* The flush of an added row: the INSERT draws the id from the sequence, and
\* a row that breaks a constraint raises IntegrityError with the id spent.
Flush(d, table, row) ==
    IF ConstraintsHold(d, table, row)
    THEN [raised |-> "None", work |-> InsertRow(d, table, row)]
    ELSE [raised |-> "IntegrityError", work |-> Discard(d, InsertRow(d, table, row))]

\* session.delete(benchmark), had no cascade been declared anywhere.
DeleteBenchmarkRowOnly(d, benchmark_id) ==
    [d EXCEPT !.rows["benchmarks"] = {b \in @ : b.id # benchmark_id}]

\* session.delete(benchmark) and the flush: the cascades "all, delete-orphan"
\* of Benchmark.datasets, Dataset.audio_files, Dataset.runs,
\* AudioFile.annotations and Run.results delete the rows below it, and
\* ondelete="SET NULL" clears results.audio_file_id of the other results.
DeleteBenchmark(d, benchmark_id) ==
    LET ds == {x.id : x \in {y \in d.rows["datasets"] : y.benchmark_id = benchmark_id}}
        afs == {x.id : x \in {y \in d.rows["audio_files"] : y.dataset_id \in ds}}
        rs == {x.id : x \in {y \in d.rows["runs"] : y.dataset_id \in ds}}
    IN  [d EXCEPT
            !.rows["benchmarks"] = {b \in @ : b.id # benchmark_id},
            !.rows["datasets"] = {x \in @ : x.id \notin ds},
            !.rows["audio_files"] = {x \in @ : x.id \notin afs},
            !.rows["annotations"] = {x \in @ : x.audio_file_id \notin afs},
            !.rows["runs"] = {x \in @ : x.id \notin rs},
            !.rows["results"] =
                {IF x.audio_file_id \in afs THEN [x EXCEPT !.audio_file_id = Null] ELSE x :
                    x \in {y \in @ : y.run_id \notin rs}}]

\* The rows a session adds to `table`, without their ids.
NewRows(table) ==
    CASE table = "benchmarks" -> {[name |-> n] : n \in {"Test Benchmark", "Other Benchmark"}}
      [] table = "datasets" ->
            {[benchmark_id |-> b, name |-> "Test Dataset"] : b \in 1..MaxRows}
      [] table = "audio_files" ->
            {[dataset_id |-> i, file_path |-> "test.wav"] : i \in 1..MaxRows}
      [] table = "annotations" -> {[audio_file_id |-> a] : a \in 1..MaxLeafRows}
      [] table = "runs" ->
            {[dataset_id |-> i, status |-> "running", completed_at |-> Null] :
                i \in 1..MaxRows}
      [] table = "results" ->
            {[run_id |-> r, audio_file_id |-> a, metric_name |-> "der"] :
                r \in 1..MaxLeafRows, a \in 0..MaxLeafRows}

RowLimit(table) == IF table \in {"benchmarks", "datasets"} THEN MaxRows ELSE MaxLeafRows

\* DatabaseManager.create_tables(): create_all makes the tables that are
\* not there.
create_tables(d) == IF d.created THEN d ELSE EmptyDb

\* DatabaseManager.drop_tables(): drop_all drops the tables with their rows
\* and their sequences.
drop_tables(d) == [EmptyDb EXCEPT !.created = FALSE]

\* The coroutines that are suspended at an await while other sessions go on:
\* a create_tables call, a drop_tables call, and the session of a test that
\* has flushed a benchmark or loaded one for deletion.
NoCoroutines == [create |-> "idle", drop |-> "idle", txn |-> [pc |-> "idle"]]

\* The session of the test holds a transaction open on the tables.
TxnOpen == sess.txn.pc # "idle"

\* create_tables, line 56: `async with self._engine.begin()` connects and
\* begins a transaction; a server out of reach raises.
CreateTablesBegin ==
    /\ sess.create \in {"idle", "raised"}
    /\ \E reachable \in BOOLEAN :
          sess' = [sess EXCEPT !.create = IF reachable THEN "begun" ELSE "raised"]
    /\ UNCHANGED <<db, mgrVars, lib_components, job, sched, coreVars>>

\* Line 57, `await conn.run_sync(Base.metadata.create_all)`: create_all
\* first looks which tables are there.
CreateAllCheck ==
    /\ sess.create = "begun"
    /\ sess' = [sess EXCEPT !.create = IF db.created THEN "found" ELSE "missing"]
    /\ UNCHANGED <<db, mgrVars, lib_components, job, sched, coreVars>>

\* Lines 57-58: the tables that were not found are created and the block
\* commits; a table made in the meantime makes CREATE TABLE raise.
CreateTables ==
    /\ sess.create \in {"found", "missing"}
    /\ IF sess.create = "found"
       THEN db' = db /\ sess' = [sess EXCEPT !.create = "idle"]
       ELSE IF db.created
       THEN db' = db /\ sess' = [sess EXCEPT !.create = "raised"]
       ELSE db' = create_tables(db) /\ sess' = [sess EXCEPT !.create = "idle"]
    /\ UNCHANGED <<mgrVars, lib_components, job, sched, coreVars>>

\* drop_tables, line 63: connection and BEGIN; a server out of reach raises.
DropTablesBegin ==
    /\ sess.drop \in {"idle", "raised"}
    /\ \E reachable \in BOOLEAN :
          sess' = [sess EXCEPT !.drop = IF reachable THEN "begun" ELSE "raised"]
    /\ UNCHANGED <<db, mgrVars, lib_components, job, sched, coreVars>>

\* Line 64, `await conn.run_sync(Base.metadata.drop_all)`: drop_all first
\* looks which tables are there.
DropAllCheck ==
    /\ sess.drop = "begun"
    /\ sess' = [sess EXCEPT !.drop = IF db.created THEN "found" ELSE "missing"]
    /\ UNCHANGED <<db, mgrVars, lib_components, job, sched, coreVars>>

\* Lines 64-65: the tables that were found are dropped and the block
\* commits.  DROP TABLE waits for the transactions open on the table; a table
\* gone in the meantime makes it raise.
DropTables ==
    /\ sess.drop \in {"found", "missing"}
    /\ IF sess.drop = "missing"
       THEN db' = db /\ sess' = [sess EXCEPT !.drop = "idle"]
       ELSE IF ~db.created
       THEN db' = db /\ sess' = [sess EXCEPT !.drop = "raised"]
       ELSE /\ ~TxnOpen
            /\ db' = drop_tables(db) /\ sess' = [sess EXCEPT !.drop = "idle"]
    /\ UNCHANGED <<mgrVars, lib_components, job, sched, coreVars>>

\* The INSERT waits for the transaction of the test, which has inserted a
\* benchmark of the same name and not committed it yet.
WaitsForTxn(table, row) ==
    /\ sess.txn.pc = "flushed"
    /\ table = "benchmarks"
    /\ row.name = sess.txn.benchmark.name

\* Another session: session.add(row); await session.commit().  A row that
\* breaks a constraint raises IntegrityError and no row is committed, but its
\* id is spent; a table that is not there raises ProgrammingError and nothing
\* changes.
CommitInsert ==
    /\ \E table \in Tables : \E row \in NewRows(table) :
          /\ db.seq[table] < RowLimit(table)
          /\ ~WaitsForTxn(table, row)
          /\ db' = IF ~db.created THEN db
                   ELSE LET flushed == Flush(db, table, row)
                        IN  IF flushed.raised = "None" THEN flushed.work
                            ELSE Discard(db, flushed.work)
    /\ UNCHANGED <<mgrVars, lib_components, sess, job, sched, coreVars>>

\* test_cascade_delete, lines 112-116: add(benchmark); await flush().  The
\* INSERT draws the id; the row is not committed.  A flush that raises ends
\* the transaction with the id spent.
FlushBenchmarkRow ==
    /\ sess.txn.pc = "idle"
    /\ db.created
    /\ db.seq["benchmarks"] < RowLimit("benchmarks")
    /\ db.seq["datasets"] < RowLimit("datasets")
    /\ \E benchmark \in NewRows("benchmarks") :
          LET flushed == Flush(db, "benchmarks", benchmark)
          IN  /\ db' = Discard(db, flushed.work)
              /\ sess' = IF flushed.raised # "None" THEN sess
                         ELSE [sess EXCEPT !.txn =
                                 [pc |-> "flushed",
                                  benchmark |-> benchmark
                                      @@ [id |-> flushed.work.seq["benchmarks"]]]]
    /\ UNCHANGED <<mgrVars, lib_components, job, sched, coreVars>>

\* Lines 118-120: add(Dataset(benchmark_id=benchmark.id, ...)); await
\* commit().  The dataset is inserted and the two rows are committed, next
\* to what other sessions have committed since the flush.
CommitBenchmarkWithDataset ==
    /\ sess.txn.pc = "flushed"
    /\ LET work == [db EXCEPT !.rows["benchmarks"] = @ \cup {sess.txn.benchmark}]
           flushed == Flush(work, "datasets",
                            [benchmark_id |-> sess.txn.benchmark.id,
                             name |-> "Test Dataset"])
       IN  db' = IF flushed.raised # "None" THEN Discard(db, flushed.work)
                 ELSE flushed.work
    /\ sess' = [sess EXCEPT !.txn = [pc |-> "idle"]]
    /\ UNCHANGED <<mgrVars, lib_components, job, sched, coreVars>>

\* Line 125, `await session.delete(benchmark)`: the benchmark is marked for
\* deletion and the rows its cascades reach are loaded; nothing is written.
DeleteLoad ==
    /\ sess.txn.pc = "idle"
    /\ db.created
    /\ \E b \in db.rows["benchmarks"] :
          sess' = [sess EXCEPT !.txn = [pc |-> "deleting", benchmark_id |-> b.id]]
    /\ UNCHANGED <<db, mgrVars, lib_components, job, sched, coreVars>>

\* Line 126, `await session.commit()`: the DELETEs of the loaded rows and of
\* the benchmark, and the COMMIT; what other sessions have put below the
\* benchmark since line 125 goes by ON DELETE CASCADE of the foreign keys.
CommitDelete ==
    /\ sess.txn.pc = "deleting"
    /\ db' = DeleteBenchmark(db, sess.txn.benchmark_id)
    /\ sess' = [sess EXCEPT !.txn = [pc |-> "idle"]]
    /\ UNCHANGED <<mgrVars, lib_components, job, sched, coreVars>>

-----------------------------------------------------------------------------
(* database.py: DatabaseManager.session().  sess.work is the database as the *)
(* session sees it, sess.log the calls made on the session so far, sess.exc  *)
(* the exception in flight.                                                  *)

NoSession == [pc |-> "idle", n |-> 0]

\* Exceptions `except Exception` catches, and the one it does not.
Exceptions == {"ValueError", "IntegrityError"}

BaseExceptions == Exceptions \cup {"CancelledError"}

\* session = self._session_factory(), up to the yield.
SessionEnter ==
    /\ sess.pc \in {"idle", "exited"}
    /\ sess.n < MaxSessions
    /\ sess' = [pc |-> "body", n |-> sess.n + 1, work |-> db, log |-> <<>>,
                exc |-> "None"]
    /\ UNCHANGED <<db, mgrVars, lib_components, job, sched, coreVars>>

\* The body adds a benchmark and flushes; a row that breaks a constraint
\* raises IntegrityError into the generator, with its id spent.
BodyAdd ==
    /\ sess.pc = "body"
    /\ sess.work.seq["benchmarks"] < MaxRows
    /\ \E row \in NewRows("benchmarks") :
          LET flushed == Flush(sess.work, "benchmarks", row)
          IN  sess' = IF flushed.raised = "None"
                      THEN [sess EXCEPT !.work = flushed.work]
                      ELSE [sess EXCEPT !.pc = "except", !.exc = flushed.raised,
                                        !.work = flushed.work]
    /\ UNCHANGED <<db, mgrVars, lib_components, job, sched, coreVars>>

\* The body ends: normally (on to the commit of line 81), with an Exception
\* (the except clause) or with another BaseException (only the finally clause).
BodyExit ==
    /\ sess.pc = "body"
    /\ \E e \in BaseExceptions \cup {"None"} :
          sess' = [sess EXCEPT !.exc = e,
                               !.pc = IF e = "None" THEN "commit"
                                      ELSE IF e \in Exceptions THEN "except"
                                      ELSE "finally"]
    /\ UNCHANGED <<db, mgrVars, lib_components, job, sched, coreVars>>

\* await session.commit(), had the finally clause not been there and the
\* function returned after it.
CommitAndReturn ==
    /\ sess.pc = "commit"
    /\ \E e \in {"None", "IntegrityError"} :
          /\ sess' = [sess EXCEPT !.log = Append(@, "commit"), !.exc = e,
                                  !.pc = IF e = "None" THEN "exited" ELSE "except"]
          /\ db' = IF e = "None" THEN sess.work ELSE db
    /\ UNCHANGED <<mgrVars, lib_components, job, sched, coreVars>>

\* await session.commit(): it commits the work, or raises and commits nothing.
Commit ==
    /\ sess.pc = "commit"
    /\ \E e \in {"None", "IntegrityError"} :
          /\ sess' = [sess EXCEPT !.log = Append(@, "commit"), !.exc = e,
                                  !.pc = IF e = "None" THEN "finally" ELSE "except"]
          /\ db' = IF e = "None" THEN sess.work ELSE db
    /\ UNCHANGED <<mgrVars, lib_components, job, sched, coreVars>>

\* except Exception: await session.rollback(); raise
Rollback ==
    /\ sess.pc = "except"
    /\ sess' = [sess EXCEPT !.log = Append(@, "rollback"), !.pc = "finally",
                            !.work = Discard(db, @)]
    /\ db' = Discard(db, sess.work)
    /\ UNCHANGED <<mgrVars, lib_components, job, sched, coreVars>>

\* finally: await session.close().  Closing ends a transaction still open and
\* drops its work; then the exception in flight, if any, leaves the block.
Close ==
    /\ sess.pc = "finally"
    /\ sess' = [sess EXCEPT !.log = Append(@, "close"), !.pc = "exited",
                            !.work = Discard(db, @)]
    /\ db' = Discard(db, sess.work)
    /\ UNCHANGED <<mgrVars, lib_components, job, sched, coreVars>>

-----------------------------------------------------------------------------
(* database.py: the global DatabaseManager *)

\* The value None of the global _db_manager.
NoManager == [none |-> TRUE]

\* The database_url arguments get_db_manager is called with.
DatabaseUrls == {"None", "postgresql://one", "postgresql://other"}

\* The engine_kwargs get_db_manager is called with: none, or echo=True.
EngineKwargs == {[echo |-> e] : e \in {FALSE, TRUE}} \cup {<<>>}

\* DatabaseManager(database_url, **engine_kwargs): the instance number `id`,
\* with the default engine configuration updated by engine_kwargs.
DatabaseManager(id, database_url, engine_kwargs) ==
    [id |-> id, database_url |-> database_url,
     config |-> engine_kwargs @@ [echo |-> FALSE, pool_pre_ping |-> TRUE]]

\* get_db_manager, had it made a new manager whenever a url is passed.
GetDbManagerAlwaysNew(global, instances, database_url, engine_kwargs) ==
    IF database_url = "None"
    THEN IF global = NoManager THEN [raised |-> "ValueError", global |-> global]
         ELSE [returned |-> global, global |-> global]
    ELSE LET made == DatabaseManager(instances + 1, database_url, engine_kwargs)
         IN  [returned |-> made, global |-> made]

\* get_db_manager(database_url) in a process whose global is `global` and
\* that has made `instances` managers so far: what it returns or raises, and
\* the global it leaves.
GetDbManagerCall(global, instances, database_url, engine_kwargs) ==
    IF global = NoManager
    THEN IF database_url = "None"
         THEN [raised |-> "ValueError", global |-> global]
         ELSE LET made == DatabaseManager(instances + 1, database_url, engine_kwargs)
              IN  [returned |-> made, global |-> made]
    ELSE [returned |-> global, global |-> global]

GetDbManager ==
    /\ \E database_url \in DatabaseUrls, engine_kwargs \in EngineKwargs :
          LET out == GetDbManagerCall(db_manager, managers_made, database_url, engine_kwargs)
          IN  /\ out.global = db_manager \/ managers_made < MaxManagers
              /\ db_manager' = out.global
              /\ managers_made' = IF out.global = db_manager THEN managers_made
                                  ELSE managers_made + 1
              /\ mgr_ret' = [call |-> "get_db_manager", database_url |-> database_url,
                             engine_kwargs |-> engine_kwargs, out |-> out]
    /\ UNCHANGED <<disposed, closing, db, lib_components, sess, job, sched, coreVars>>

\* A sequence without its i-th element.
Without(seq, i) == [k \in 1..(Len(seq) - 1) |-> IF k < i THEN seq[k] ELSE seq[k + 1]]

\* close_db() up to its await (lines 123-125): with the global unset it
\* returns at once, else it calls close() of the manager and is suspended.
CloseDb ==
    /\ IF db_manager = NoManager
       THEN /\ mgr_ret' = [call |-> "close_db", found |-> Null, out |-> "returned"]
            /\ UNCHANGED closing
       ELSE /\ Len(closing) < MaxClosing
            /\ closing' = Append(closing, db_manager.id)
            /\ mgr_ret' = [call |-> "close_db", found |-> db_manager.id,
                           out |-> "awaiting"]
    /\ UNCHANGED <<db_manager, managers_made, disposed, db, lib_components, sess,
                   job, sched, coreVars>>

\* close_db() from its await on (lines 125-126): the engine is disposed and
\* the global unset, or dispose() raised and the global stays as it is.
CloseDbResume ==
    /\ \E i \in DOMAIN closing, raised \in BOOLEAN :
          /\ closing' = Without(closing, i)
          /\ IF raised
             THEN /\ mgr_ret' = [call |-> "close_db", found |-> closing[i],
                                 out |-> "Exception"]
                  /\ UNCHANGED <<db_manager, disposed>>
             ELSE /\ mgr_ret' = [call |-> "close_db", found |-> closing[i],
                                 out |-> "returned"]
                  /\ disposed' = disposed \cup {closing[i]}
                  /\ db_manager' = NoManager
    /\ UNCHANGED <<managers_made, db, lib_components, sess, job, sched, coreVars>>

\* DatabaseManager.close() of an instance someone holds (lines 88-91): the
\* engine is disposed, the global is not touched.
ManagerClose ==
    /\ \E id \in 1..managers_made, raised \in BOOLEAN :
          /\ disposed' = IF raised THEN disposed ELSE disposed \cup {id}
          /\ mgr_ret' = [call |-> "close", found |-> id,
                         out |-> IF raised THEN "Exception" ELSE "returned"]
    /\ UNCHANGED <<db_manager, managers_made, closing, db, lib_components, sess,
                   job, sched, coreVars>>

-----------------------------------------------------------------------------
(* run_and_save.py: run_benchmark_with_save, from one await to the next.      *)
(* job.n is the number of the call in its process, job.work the database as  *)
(* the open session sees it, with the rows it has flushed and not committed, *)
(* job.exited tells that the process is gone, and job.reached counts the     *)
(* processes a scheduler has started that have reached the database.         *)

NoJob == [pc |-> "idle", n |-> 0, reached |-> 0]

\* class RunStatus
RunStatus == {"pending", "running", "completed", "failed", "cancelled"}

\* class DatasetType: the members by name, with their values.
DatasetType == [AMI |-> "ami", SEQUESTERED |-> "sequestered"]

\* str.upper() on the type strings of the configurations.
Upper(str) ==
    [ami |-> "AMI", Ami |-> "AMI", AMI |-> "AMI",
     sequestered |-> "SEQUESTERED", Sequestered |-> "SEQUESTERED",
     SEQUESTERED |-> "SEQUESTERED", voxconverse |-> "VOXCONVERSE"][str]

\* The benchmark the datasets of the configuration belong to.
BenchmarkConfig ==
    [name |-> "Speaker Diarization", description |-> "Diarization benchmark"]

\* config/datasets.yaml: two datasets of one benchmark, one of them with its
\* type in another case, and three entries that cannot be used: one lacks
\* its display_name, one the description of its benchmark, one has a type
\* that is no member of DatasetType.  `wavs` are the files of the audio
\* directory.
DatasetConfigs ==
    [ami |-> [display_name |-> "AMI Corpus", benchmark |-> BenchmarkConfig,
              type |-> "ami", annotation_dir |-> "data/ami/annotations",
              audio_dir |-> "data/ami/audio", wavs |-> {"b.wav", "a.wav"}],
     sequestered |-> [display_name |-> "Sequestered", benchmark |-> BenchmarkConfig,
                      type |-> "Sequestered",
                      annotation_dir |-> "data/sequestered/annotations",
                      audio_dir |-> "data/sequestered/audio", wavs |-> {"a.wav"}],
     broken |-> [benchmark |-> BenchmarkConfig, type |-> "ami",
                 annotation_dir |-> "data/broken/annotations",
                 audio_dir |-> "data/broken/audio", wavs |-> {}],
     nodesc |-> [display_name |-> "No Description",
                 benchmark |-> [name |-> "Speaker Diarization"],
                 type |-> "AMI", annotation_dir |-> "data/nodesc/annotations",
                 audio_dir |-> "data/nodesc/audio", wavs |-> {}],
     badtype |-> [display_name |-> "Bad Type", benchmark |-> BenchmarkConfig,
                  type |-> "voxconverse",
                  annotation_dir |-> "data/badtype/annotations",
                  audio_dir |-> "data/badtype/audio", wavs |-> {}]]

\* Lines 79-85: the keys the function reads with [], of the entry and of
\* its benchmark, and the member of DatasetType it looks up by the
\* upper-cased type; anything missing raises KeyError.
ConfigComplete(cfg) ==
    /\ {"display_name", "benchmark", "type", "audio_dir", "annotation_dir"}
            \subseteq DOMAIN cfg
    /\ {"name", "description"} \subseteq DOMAIN cfg.benchmark
    /\ Upper(cfg.type) \in DOMAIN DatasetType

\* settings.database_url
SettingsDatabaseUrl == "postgresql://one"

\* sorted([f.name for f in audio_dir.glob("*.wav")])
SortedNames(names) == SelectSeq(<<"a.wav", "b.wav">>, LAMBDA f : f \in names)

\* The one row of `rows`, None for no row; more than one row raises.
ScalarOneOrNone(rows) ==
    IF Cardinality(rows) > 1 THEN [raised |-> "MultipleResultsFound"]
    ELSE IF rows = {} THEN [raised |-> "None", none |-> TRUE]
    ELSE [raised |-> "None", none |-> FALSE, row |-> CHOOSE x \in rows : TRUE]

\* Lines 91-94, had the dataset never been found.
DatasetNeverFound(d, cfg) == [raised |-> "None", none |-> TRUE]

\* Lines 91-94: the dataset looked for by its display name.
DatasetFound(d, cfg) ==
    ScalarOneOrNone({x \in d.rows["datasets"] : x.name = cfg.display_name})

\* Lines 70-87 of call number n: the configuration of the dataset is loaded,
\* or the error is logged and the function returns; a configuration that
\* lacks a key raises KeyError.
JobStarted(n, dataset_name, exists) ==
    [pc |-> IF dataset_name \notin DOMAIN DatasetConfigs THEN "returned"
            ELSE IF ~ConfigComplete(DatasetConfigs[dataset_name]) THEN "raised"
            ELSE "get_or_create",
     n |-> n, dataset_name |-> dataset_name, audio_dir_exists |-> exists,
     dataset_id |-> Null, run_id |-> Null,
     files |-> <<>>, i |-> 0, failed |-> <<>>, all_der |-> <<>>,
     work |-> EmptyDb, benchmark_id |-> Null, audio_file_id |-> Null,
     exited |-> FALSE, reached |-> 0]

\* Lines 58-87: a new call in the same process.  It takes the global
\* manager, which the first call creates from the settings.
JobStart ==
    /\ job.pc \in {"idle", "returned", "raised"}
    /\ job.n < MaxExecutions
    /\ \E dataset_name \in DOMAIN DatasetConfigs \cup {"unknown"}, exists \in BOOLEAN :
          job' = JobStarted(job.n + 1, dataset_name, exists)
    /\ LET out == GetDbManagerCall(db_manager, managers_made, SettingsDatabaseUrl, <<>>)
       IN  /\ db_manager' = out.global
           /\ managers_made' = IF out.global = db_manager THEN managers_made
                               ELSE managers_made + 1
           /\ mgr_ret' = [call |-> "get_db_manager",
                          database_url |-> SettingsDatabaseUrl,
                          engine_kwargs |-> <<>>, out |-> out]
    /\ UNCHANGED <<db, disposed, closing, lib_components, sess, sched, coreVars>>

\* Lines 140-147, had a missing directory marked the run as failed.
CheckAudioDirFailing ==
    /\ job.pc = "check_dir"
    /\ job' = IF job.audio_dir_exists
              THEN [job EXCEPT !.pc = "loop", !.i = 1,
                       !.files = SortedNames(DatasetConfigs[job.dataset_name].wavs)]
              ELSE [job EXCEPT !.pc = "returned"]
    /\ db' = IF job.audio_dir_exists THEN db
             ELSE [db EXCEPT !.rows["runs"] =
                     {IF r.id = job.run_id THEN [r EXCEPT !.status = "failed"] ELSE r :
                        r \in @}]
    /\ UNCHANGED <<mgrVars, lib_components, sess, sched, coreVars>>

\* Lines 140-147: return when the audio directory is missing, else list it.
CheckAudioDir ==
    /\ job.pc = "check_dir"
    /\ job' = IF job.audio_dir_exists
              THEN [job EXCEPT !.pc = "loop", !.i = 1,
                       !.files = SortedNames(DatasetConfigs[job.dataset_name].wavs)]
              ELSE [job EXCEPT !.pc = "returned"]
    /\ UNCHANGED <<db, mgrVars, lib_components, sess, sched, coreVars>>

\* Lines 196-219: the database as the session sees it with the two Result
\* rows inserted.
WithResults(work, run_id, audio_file_id) ==
    InsertRow(
        InsertRow(work, "results",
                  [run_id |-> run_id, audio_file_id |-> audio_file_id,
                   metric_name |-> "der"]),
        "results",
        [run_id |-> run_id, audio_file_id |-> audio_file_id, metric_name |-> "jer"])

\* The database after the INSERT of line 221, had each Result been committed
\* on its own.
AfterInsertPiecewise(d, work, saved, raised) ==
    IF raised = "after"
    THEN [saved EXCEPT !.rows["results"] =
            {r \in @ : r \in d.rows["results"] \/ r.metric_name = "der"}]
    ELSE Discard(d, IF raised = "before" THEN work ELSE saved)

\* The database after the INSERT of line 221: nothing is committed; the ids
\* of the two Results are drawn, unless the commit raised before it sent the
\* INSERT.
AfterInsert(d, work, saved, raised) ==
    Discard(d, IF raised = "before" THEN work ELSE saved)

-----------------------------------------------------------------------------
(* scheduler.py on its asyncio event loop.  sched.tasks are the coroutines   *)
(* of the loops; sched.ready is the loop's queue of handles, a "step" handle *)
(* resuming a coroutine and a "timer" handle ending its sleep; sched.timers  *)
(* are the sleeping coroutines in the order of their deadlines; sched.todo   *)
(* is the number of handles the current pass of the loop has still to run.   *)
(* Time is counted in ticks of half an hour: a child has run for `elapsed`   *)
(* ticks and some more, a sleep has at most `remaining` ticks to go.  The    *)
(* code between two awaits takes no time.  The child is run_and_save.py:     *)
(* `job` is its run_benchmark_with_save call, and the manager variables are  *)
(* the globals of its process.                                               *)

NoSched == [mode |-> "idle", tasks |-> <<>>, ready |-> <<>>, timers |-> <<>>, todo |-> 0]

\* The configuration file lists the datasets in turn.
DatasetOfSchedule(k) ==
    IF k % 3 = 1 THEN "ami" ELSE IF k % 3 = 2 THEN "sequestered" ELSE "broken"

\* The files --config may name: none, or a list of schedules, each enabled,
\* disabled or without the key.
ScheduleConfigs ==
    {[exists |-> FALSE]} \cup
    UNION {{[exists |-> TRUE,
             schedules |-> [k \in 1..n |->
                IF f[k].enabled = "absent"
                THEN [dataset |-> DatasetOfSchedule(k),
                      interval_hours |-> f[k].interval_hours]
                ELSE [dataset |-> DatasetOfSchedule(k),
                      interval_hours |-> f[k].interval_hours,
                      enabled |-> f[k].enabled = "true"]]] :
              f \in [1..n -> [interval_hours : 0..MaxInterval,
                              enabled : {"true", "false", "absent"}]]} :
           n \in 0..MaxSchedules}

\* s.get("enabled", True)
IsEnabled(s) == IF "enabled" \in DOMAIN s THEN s.enabled ELSE TRUE

\* load_schedule_config: the enabled schedules in the order of the file; a
\* missing file and a file without an enabled schedule raise.
load_schedule_config(config) ==
    IF ~config.exists THEN [raised |-> "FileNotFoundError"]
    ELSE LET enabled_schedules == SelectSeq(config.schedules, IsEnabled)
         IN  IF enabled_schedules = <<>> THEN [raised |-> "ValueError"]
             ELSE [raised |-> "None", returned |-> enabled_schedules]

\* A coroutine of schedule_loop or dataset_schedule_loop, created and queued.
LoopTask(dataset, interval_hours) ==
    [dataset |-> dataset, interval_hours |-> interval_hours, pc |-> "ready",
     elapsed |-> 0, remaining |-> 0, last |-> "none"]

StepOf(t) == [kind |-> "step", task |-> t]

TimerOf(t) == [kind |-> "timer", task |-> t]

Running == {t \in DOMAIN sched.tasks : sched.tasks[t].pc = "running"}

\* The timers whose deadline has come, in the order of the deadlines.
Due == SelectSeq(sched.timers, LAMBDA t : sched.tasks[t].remaining = 0)

\* The event loop, were the child awaited instead of waited for.
LoopNeverBlocked == FALSE

\* subprocess.run does not return control to the event loop: while a child
\* runs the loop runs no handle.
LoopBlocked == Running # {}

\* The child process has exited by itself, or there never was one.
ChildOver == job.exited

\* What run_benchmark sees of the child: the timeout after the full hour,
\* an exception of subprocess.run that is not the timeout, exit code 0 when
\* run_benchmark_with_save returned and the process exited, and another exit
\* code when it raised or the command line was rejected.
Outcome(elapsed) ==
    IF elapsed >= Timeout THEN "timeout"
    ELSE IF job.pc = "not_spawned" THEN "error"
    ELSE IF job.pc = "returned" THEN "ok"
    ELSE "failed"

\* await asyncio.sleep(interval_seconds) in coroutine t: a sleep of no time
\* queues the coroutine again, a longer one sets a timer, which comes behind
\* the timers that are due no later.
Sleep(s, t) ==
    LET r == s.tasks[t].interval_hours * TicksPerHour
    IN  IF r = 0
        THEN [s EXCEPT !.tasks[t].pc = "ready", !.ready = Append(@, StepOf(t))]
        ELSE [s EXCEPT !.tasks[t].pc = "sleeping", !.tasks[t].remaining = r,
                       !.timers = SelectSeq(@, LAMBDA x : s.tasks[x].remaining <= r)
                                  \o <<t>> \o
                                  SelectSeq(@, LAMBDA x : s.tasks[x].remaining > r)]

\* The loop, had run_benchmark raised for a child that did not succeed.
AfterBenchmarkPropagating(s, t, outcome) ==
    IF outcome = "ok"
    THEN Sleep([s EXCEPT !.tasks[t].elapsed = 0, !.tasks[t].last = outcome], t)
    ELSE [s EXCEPT !.tasks[t].pc = "raised", !.tasks[t].elapsed = 0,
                   !.tasks[t].last = outcome]

\* run_benchmark logs the outcome and returns; the loop then sleeps for the
\* interval.
AfterBenchmark(s, t, outcome) ==
    Sleep([s EXCEPT !.tasks[t].elapsed = 0, !.tasks[t].last = outcome], t)

\* main() with --interval or --dataset: the simple mode, which wants both
\* and an interval of an hour at least.
MainSimple ==
    /\ sched.mode = "idle"
    /\ \E interval \in 0..MaxInterval,
          dataset \in DOMAIN DatasetConfigs \cup {"unknown", "None"} :
          /\ interval # 0 \/ dataset # "None"
          /\ sched' = IF interval < 1 \/ dataset = "None"
                      THEN [sched EXCEPT !.mode = "exited"]
                      ELSE [sched EXCEPT !.mode = "simple",
                                         !.tasks = <<LoopTask(dataset, interval)>>,
                                         !.ready = <<StepOf(1)>>]
    /\ UNCHANGED <<db, mgrVars, lib_components, sess, job, coreVars>>

\* main() without them: one task per schedule load_schedule_config returns.
MainConfig ==
    /\ sched.mode = "idle"
    /\ \E config \in ScheduleConfigs :
          LET loaded == load_schedule_config(config)
          IN  sched' = IF loaded.raised # "None"
                       THEN [sched EXCEPT !.mode = "exited"]
                       ELSE [sched EXCEPT
                               !.mode = "config",
                               !.tasks = [k \in 1..Len(loaded.returned) |->
                                            LoopTask(loaded.returned[k].dataset,
                                                     loaded.returned[k].interval_hours)],
                               !.ready = [k \in 1..Len(loaded.returned) |-> StepOf(k)]]
    /\ UNCHANGED <<db, mgrVars, lib_components, sess, job, coreVars>>

\* A pass of the event loop begins: the timers that are due are put on the
\* queue, behind what is there, and the handles now on the queue will be run.
RunOnce ==
    /\ ~LoopBlocked
    /\ sched.todo = 0
    /\ sched.ready # <<>> \/ Due # <<>>
    /\ sched' = [sched EXCEPT
                    !.ready = @ \o [k \in 1..Len(Due) |-> TimerOf(Due[k])],
                    !.timers = SelectSeq(@, LAMBDA t : sched.tasks[t].remaining > 0),
                    !.todo = Len(sched.ready) + Len(Due)]
    /\ UNCHANGED <<db, mgrVars, lib_components, sess, job, coreVars>>

\* The loop runs a timer handle: the sleep is over and the coroutine is put
\* on the queue.
Wake ==
    /\ ~LoopBlocked
    /\ sched.todo > 0
    /\ Head(sched.ready).kind = "timer"
    /\ LET t == Head(sched.ready).task
       IN  sched' = [sched EXCEPT !.ready = Append(Tail(@), StepOf(t)),
                                  !.tasks[t].pc = "ready",
                                  !.todo = @ - 1]
    /\ UNCHANGED <<db, mgrVars, lib_components, sess, job, coreVars>>

\* The child process of the command line `run_and_save.py --dataset`: the
\* parser rejects a dataset the configuration does not list, else
\* run_benchmark_with_save is called in a new process, as its first call;
\* `reached` children before it have reached the database.
ChildStarted(reached, dataset, exists) ==
    [JobStarted(1, dataset, exists) EXCEPT
        !.pc = IF dataset \in DOMAIN DatasetConfigs THEN @ ELSE "rejected",
        !.reached = reached]

\* The loop runs a step handle: the coroutine calls run_benchmark, and
\* subprocess.run starts the child or fails to.  The child is a new process:
\* its global manager is unset until run_benchmark_with_save is called, which
\* a command line that argparse rejects never does.
StartBenchmark ==
    /\ ~LoopBlocked
    /\ sched.todo > 0
    /\ Head(sched.ready).kind = "step"
    /\ LET t == Head(sched.ready).task
       IN  /\ sched' = [sched EXCEPT !.ready = Tail(@),
                                     !.tasks[t].pc = "running",
                                     !.tasks[t].elapsed = 0,
                                     !.todo = @ - 1]
           /\ \E spawned \in BOOLEAN, exists \in BOOLEAN :
                 IF spawned
                 THEN LET out == GetDbManagerCall(NoManager, 0, SettingsDatabaseUrl, <<>>)
                          child == ChildStarted(job.reached, sched.tasks[t].dataset, exists)
                      IN  /\ job' = child
                          /\ IF child.pc = "rejected"
                             THEN /\ db_manager' = NoManager
                                  /\ managers_made' = 0
                                  /\ mgr_ret' = [call |-> "idle"]
                             ELSE /\ db_manager' = out.global
                                  /\ managers_made' = 1
                                  /\ mgr_ret' = [call |-> "get_db_manager",
                                                 database_url |-> SettingsDatabaseUrl,
                                                 engine_kwargs |-> <<>>, out |-> out]
                 ELSE /\ exists
                      /\ job' = [pc |-> "not_spawned", reached |-> job.reached, exited |-> TRUE]
                      /\ UNCHANGED <<db_manager, managers_made, mgr_ret>>
    /\ UNCHANGED <<db, disposed, closing, lib_components, sess, coreVars>>

\* subprocess.run returns or raises, when the child has exited or at the
\* timeout, which kills the child where it is; run_benchmark returns and the
\* coroutine goes to sleep.  Of the child the outcome that run_benchmark
\* logged is left, what it committed to the database, and the ids it drew.
EndBenchmark ==
    /\ \E t \in Running :
          /\ ChildOver \/ sched.tasks[t].elapsed >= Timeout
          /\ sched' = AfterBenchmark(sched, t, Outcome(sched.tasks[t].elapsed))
          /\ job' = [pc |-> "over", reached |-> job.reached, exited |-> TRUE]
    /\ UNCHANGED <<db, mgrVars, lib_components, sess, coreVars>>

\* Half an hour has passed: for the child that is still at work, or, between
\* two passes of the event loop, for the sleeping coroutines.  The passes
\* and the children that were over at once have taken their time too, so the
\* half hour may be over while a coroutine is queued; a timer that is due is
\* looked at before more time passes.
Tick ==
    /\ sched.mode \in {"simple", "config"}
    /\ IF Running # {}
       THEN ~ChildOver /\ \A t \in Running : sched.tasks[t].elapsed < Timeout
       ELSE sched.todo = 0 /\ sched.timers # <<>> /\ Due = <<>>
    /\ sched' = [sched EXCEPT !.tasks =
                    [t \in DOMAIN sched.tasks |->
                       LET task == sched.tasks[t]
                       IN  IF task.pc = "running"
                           THEN [task EXCEPT !.elapsed = @ + 1]
                           ELSE IF task.pc = "sleeping" /\ task.remaining > 0
                           THEN [task EXCEPT !.remaining = @ - 1]
                           ELSE task]]
    /\ UNCHANGED <<db, mgrVars, lib_components, sess, job, coreVars>>

\* The process is there and can take a step: it has not exited, and the
\* hour subprocess.run gives it, when a scheduler has started it, is not over.
ChildAlive ==
    /\ ~job.exited
    /\ Running = {} \/ \E t \in Running : sched.tasks[t].elapsed < Timeout

ChildAt(pc) == job.pc = pc /\ ChildAlive

\* The loop, had it had no try/except: the exception leaves the function.
ChildFileFailedNoExcept(d) ==
    [job EXCEPT !.pc = "raised", !.i = @ + 1, !.work = d,
                !.failed = Append(@, job.files[job.i])]

\* An exception leaves the session block of lines 89-138: the session rolls
\* back and run_benchmark_with_save raises.
ChildRaised(d) == [job EXCEPT !.pc = "raised", !.work = d]

\* An exception inside the try of the loop, lines 158-226: the session, if
\* one is open, rolls back, the error is logged and the loop goes on.
ChildFileFailed(d) ==
    [job EXCEPT !.pc = "loop", !.i = @ + 1, !.work = d,
                !.failed = Append(@, job.files[job.i])]

\* Lines 91-94: the first statement the child sends to the database, which
\* may be out of reach, and the dataset looked for by its display name.
SelectDataset ==
    /\ ChildAt("get_or_create")
    /\ \E reachable \in BOOLEAN :
          /\ reachable => job.reached < MaxConnections
          /\ LET cfg == DatasetConfigs[job.dataset_name]
                 found == DatasetFound(db, cfg)
             IN  job' = IF ~reachable THEN ChildRaised(db)
                        ELSE IF found.raised # "None"
                        THEN [ChildRaised(db) EXCEPT !.reached = @ + 1]
                        ELSE IF found.none
                        THEN [job EXCEPT !.pc = "select_benchmark",
                                         !.reached = @ + 1, !.work = db]
                        ELSE [job EXCEPT !.pc = "commit_dataset",
                                         !.reached = @ + 1, !.work = db,
                                         !.dataset_id = found.row.id]
    /\ UNCHANGED <<db, mgrVars, lib_components, sess, sched, coreVars>>

\* Lines 96-100: the benchmark looked for by its name.
SelectBenchmark ==
    /\ ChildAt("select_benchmark")
    /\ LET cfg == DatasetConfigs[job.dataset_name]
           found == ScalarOneOrNone({b \in job.work.rows["benchmarks"] :
                                        b.name = cfg.benchmark.name})
       IN  job' = IF found.raised # "None" THEN ChildRaised(db)
                  ELSE IF found.none THEN [job EXCEPT !.pc = "flush_benchmark"]
                  ELSE [job EXCEPT !.pc = "flush_dataset",
                                   !.benchmark_id = found.row.id]
    /\ UNCHANGED <<db, mgrVars, lib_components, sess, sched, coreVars>>

\* Lines 102-105: the INSERT of the benchmark; the row is not committed,
\* its id is drawn.
FlushBenchmark ==
    /\ ChildAt("flush_benchmark")
    /\ LET cfg == DatasetConfigs[job.dataset_name]
           flushed == Flush(job.work, "benchmarks",
                            [name |-> cfg.benchmark.name,
                             description |-> cfg.benchmark.description])
       IN  /\ db' = Discard(db, flushed.work)
           /\ job' = IF flushed.raised # "None" THEN ChildRaised(db')
                     ELSE [job EXCEPT !.pc = "flush_dataset", !.work = flushed.work,
                                      !.benchmark_id = flushed.work.seq["benchmarks"]]
    /\ UNCHANGED <<mgrVars, lib_components, sess, sched, coreVars>>

\* Lines 107-115: the INSERT of the dataset under that benchmark.
FlushDataset ==
    /\ ChildAt("flush_dataset")
    /\ LET cfg == DatasetConfigs[job.dataset_name]
           flushed == Flush(job.work, "datasets",
                            [benchmark_id |-> job.benchmark_id,
                             name |-> cfg.display_name,
                             type |-> DatasetType[Upper(cfg.type)]])
       IN  /\ db' = Discard(db, flushed.work)
           /\ job' = IF flushed.raised # "None" THEN ChildRaised(db')
                     ELSE [job EXCEPT !.pc = "commit_dataset", !.work = flushed.work,
                                      !.dataset_id = flushed.work.seq["datasets"]]
    /\ UNCHANGED <<mgrVars, lib_components, sess, sched, coreVars>>

\* Lines 117-119: the commit of the first session; what it flushed is now in
\* the database.  The session is left, which sends nothing more.
CommitDataset ==
    /\ ChildAt("commit_dataset")
    /\ db' = job.work
    /\ job' = [job EXCEPT !.pc = "insert_run"]
    /\ UNCHANGED <<mgrVars, lib_components, sess, sched, coreVars>>

\* Lines 122-134: the Run with status RUNNING is added, and the commit
\* begins with its INSERT.
InsertRun ==
    /\ ChildAt("insert_run")
    /\ LET flushed == Flush(db, "runs",
                            [dataset_id |-> job.dataset_id, status |-> "running",
                             completed_at |-> Null])
       IN  /\ db' = Discard(db, flushed.work)
           /\ job' = IF flushed.raised # "None" THEN ChildRaised(db')
                     ELSE [job EXCEPT !.pc = "commit_run", !.work = flushed.work]
    /\ UNCHANGED <<mgrVars, lib_components, sess, sched, coreVars>>

\* Line 134: the COMMIT of the Run row.
CommitRun ==
    /\ ChildAt("commit_run")
    /\ db' = job.work
    /\ job' = [job EXCEPT !.pc = "refresh_run"]
    /\ UNCHANGED <<mgrVars, lib_components, sess, sched, coreVars>>

\* Lines 135-138: the row is read back and its id kept.
RefreshRun ==
    /\ ChildAt("refresh_run")
    /\ job' = [job EXCEPT !.pc = "check_dir", !.run_id = job.work.seq["runs"]]
    /\ UNCHANGED <<db, mgrVars, lib_components, sess, sched, coreVars>>

\* Lines 140-150 in a process that is alive.
ChildCheckAudioDir == job.pc = "check_dir" /\ ChildAlive /\ CheckAudioDir

\* Line 160: await api_client.diarize(audio_path), which may raise.
Diarize ==
    /\ ChildAt("loop") /\ job.i <= Len(job.files)
    /\ \E raised \in BOOLEAN :
          job' = IF raised THEN ChildFileFailed(db) ELSE [job EXCEPT !.pc = "score"]
    /\ UNCHANGED <<db, mgrVars, lib_components, sess, sched, coreVars>>

\* Lines 163-173: the annotations are read and scored, which may raise, and
\* the DER is kept for the summary.
Score ==
    /\ ChildAt("score")
    /\ \E raised \in BOOLEAN :
          job' = IF raised THEN ChildFileFailed(db)
                 ELSE [job EXCEPT !.pc = "select_audio_file",
                                  !.all_der = Append(@, job.files[job.i])]
    /\ UNCHANGED <<db, mgrVars, lib_components, sess, sched, coreVars>>

\* Lines 176-185: a session is opened and the AudioFile row looked for.
SelectAudioFile ==
    /\ ChildAt("select_audio_file")
    /\ LET file_path == DatasetConfigs[job.dataset_name].audio_dir \o "/"
                            \o job.files[job.i]
           found == ScalarOneOrNone({a \in db.rows["audio_files"] :
                        a.dataset_id = job.dataset_id /\ a.file_path = file_path})
       IN  job' = IF found.raised # "None" THEN ChildFileFailed(db)
                  ELSE IF found.none
                  THEN [job EXCEPT !.pc = "flush_audio_file", !.work = db]
                  ELSE [job EXCEPT !.pc = "insert_results", !.work = db,
                                   !.audio_file_id = found.row.id]
    /\ UNCHANGED <<db, mgrVars, lib_components, sess, sched, coreVars>>

\* Lines 187-194: the INSERT of the AudioFile row.
FlushAudioFile ==
    /\ ChildAt("flush_audio_file")
    /\ LET file_path == DatasetConfigs[job.dataset_name].audio_dir \o "/"
                            \o job.files[job.i]
           flushed == Flush(job.work, "audio_files",
                            [dataset_id |-> job.dataset_id, file_path |-> file_path])
       IN  /\ db' = Discard(db, flushed.work)
           /\ job' = IF flushed.raised # "None" THEN ChildFileFailed(db')
                     ELSE [job EXCEPT !.pc = "insert_results", !.work = flushed.work,
                                      !.audio_file_id = flushed.work.seq["audio_files"]]
    /\ UNCHANGED <<mgrVars, lib_components, sess, sched, coreVars>>

\* Lines 196-221: the two Results are added, and the commit begins with
\* their INSERT, which draws their ids; the commit may raise before it has
\* sent the INSERT, or after.
InsertResults ==
    /\ ChildAt("insert_results")
    /\ \E raised \in {"None", "before", "after"} :
          LET saved == WithResults(job.work, job.run_id, job.audio_file_id)
          IN  /\ db' = AfterInsert(db, job.work, saved, raised)
              /\ job' = IF raised # "None" THEN ChildFileFailed(db')
                        ELSE [job EXCEPT !.pc = "commit_results", !.work = saved]
    /\ UNCHANGED <<mgrVars, lib_components, sess, sched, coreVars>>

\* Line 221: the COMMIT of the file's rows; the loop goes on.
CommitResults ==
    /\ ChildAt("commit_results")
    /\ db' = job.work
    /\ job' = [job EXCEPT !.pc = "loop", !.i = @ + 1]
    /\ UNCHANGED <<mgrVars, lib_components, sess, sched, coreVars>>

\* Lines 229-231: after the last file the Run row is read.
SelectRun ==
    /\ ChildAt("loop") /\ job.i > Len(job.files)
    /\ job' = [job EXCEPT !.pc = "complete", !.work = db]
    /\ UNCHANGED <<db, mgrVars, lib_components, sess, sched, coreVars>>

\* Lines 232-234: the run is marked completed and committed; the function
\* logs its summary and returns.
CommitCompleted ==
    /\ ChildAt("complete")
    /\ db' = [db EXCEPT !.rows["runs"] =
                {IF r.id = job.run_id
                 THEN [r EXCEPT !.status = "completed", !.completed_at = job.n]
                 ELSE r : r \in @}]
    /\ job' = [job EXCEPT !.pc = "returned", !.work = db']
    /\ UNCHANGED <<mgrVars, lib_components, sess, sched, coreVars>>

\* The process of the child exits, after run_benchmark_with_save returned or
\* raised, or after the parser rejected the command line.
ChildExit ==
    /\ job.pc \in {"returned", "raised", "rejected"}
    /\ ChildAlive
    /\ job' = [job EXCEPT !.exited = TRUE]
    /\ UNCHANGED <<db, mgrVars, lib_components, sess, sched, coreVars>>

\* The child goes from one await of run_benchmark_with_save to the next.
ChildNext ==
    \/ SelectDataset \/ SelectBenchmark \/ FlushBenchmark \/ FlushDataset
    \/ CommitDataset \/ InsertRun \/ CommitRun \/ RefreshRun \/ ChildCheckAudioDir
    \/ Diarize \/ Score \/ SelectAudioFile \/ FlushAudioFile \/ InsertResults
    \/ CommitResults \/ SelectRun \/ CommitCompleted \/ ChildExit

-----------------------------------------------------------------------------
(* Inputs and specifications *)

SeqsUpTo(S, n) == UNION {[1..k -> S] : k \in 0..n}

\* The RTTM lines of the model.
RecordLine(start, duration, speaker) ==
    Join(<<"SPEAKER", "f1", "1", start, duration, "<NA>", "<NA>", speaker, "<NA>">>)

LineBlank == <<"\n">>
LineSpaces == <<" ", "\n">>
LineComment == Join(<<"#", "comment">>)
LineIndentedComment ==
    <<" ">> \o Join(<<"#SPEAKER", "f1", "1", "0.0", "2.5", "<NA>", "<NA>", "A", "<NA>">>)
LineShort == Join(<<"SPEAKER", "f1", "1", "0.0">>)
LineSeven == Join(<<"SPEAKER", "f1", "1", "0.0", "2.5", "<NA>", "<NA>">>)
LineOther == Join(<<"SPKR-INFO", "f1", "1", "0.0", "2.5", "<NA>", "<NA>", "A", "<NA>">>)
LineA == RecordLine("0.0", "2.5", "A")
LineB == RecordLine("2.5", "3.0", "B")
LineSameAsA == RecordLine("0.0", "2.5", "B")
LineEight == Join(<<"SPEAKER", "f1", "1", "2.5", "3.0", "<NA>", "<NA>", "A">>)
LineBadStart == RecordLine("abc", "2.5", "A")
LineBadDuration == RecordLine("0.0", "<NA>", "B")

RttmLineSet ==
    {LineBlank, LineSpaces, LineComment, LineIndentedComment, LineShort,
     LineSeven, LineOther, LineA, LineB, LineSameAsA, LineEight,
     LineBadStart, LineBadDuration}

\* The entries of a hypothesis "segments" list.
Entry(start, end, speaker) == [start |-> start, end |-> end, speaker |-> speaker]

EntrySet ==
    {Entry(0, 20, "A"), Entry(20, 44, "B"), Entry(0, 20, "B"),
     [start |-> 20, end |-> 44, speaker |-> "A", confidence |-> 9],
     [end |-> 20, speaker |-> "A"], [start |-> 0, speaker |-> "B"],
     [start |-> 0, end |-> 20]}

HypRecordSet ==
    {[num_speakers |-> 2]} \cup
    {[segments |-> entries] : entries \in SeqsUpTo(EntrySet, MaxEntries)} \cup
    {[segments |-> <<Entry(0, 20, "A")>>, num_speakers |-> 1]}

\* The reference files compute_all_metrics is called on.
CamRttmSet == {<<>>, <<LineA, LineB>>, <<LineComment, LineA>>, <<LineBadStart>>}

\* The annotations with at most n segments inside [0, MaxTime].
SegmentSet ==
    {Segment(a, b) : a \in 0..MaxTime, b \in 0..MaxTime} \cap
    {Segment(a, b) : a \in 0..MaxTime, b \in 1..MaxTime}

GridSegments == {seg \in SegmentSet : seg.start < seg.end}

AnnotationsUpTo(n) ==
    UNION {[D -> {"A", "B"}] : D \in {S \in SUBSET GridSegments : Cardinality(S) <= n}}

RttmIdle ==
    /\ rttm_lines = <<>> /\ rttm_idx = 0 /\ rttm_ann = EmptyAnnotation
    /\ rttm_pc = "idle"

HypIdle ==
    /\ hyp_record = [num_speakers |-> 0] /\ hyp_idx = 0
    /\ hyp_ann = EmptyAnnotation /\ hyp_pc = "idle"

CamIdle == cam_rttm = <<>> /\ cam_result = [called |-> TRUE, raised |-> "idle"]

\* No MetricAggregator is in use.
AggIdle ==
    /\ agg_metrics = <<>> /\ agg_log = <<>>
    /\ add_ret = [called |-> TRUE] /\ per_file_ret = [called |-> TRUE]
    /\ agg_cur = [called |-> TRUE] /\ agg_old = [called |-> TRUE]

MgrIdle ==
    /\ db_manager = NoManager /\ managers_made = 0 /\ disposed = {}
    /\ mgr_ret = [call |-> "idle"]
    /\ closing = <<>>

SysIdle ==
    /\ db = EmptyDb
    /\ MgrIdle
    /\ lib_components = <<>>
    /\ sess = NoSession /\ job = NoJob /\ sched = NoSched

ScoreIdle ==
    /\ reference = EmptyAnnotation /\ hypothesis = EmptyAnnotation
    /\ collar = 0 /\ skip_overlap = FALSE
    /\ der_result = [called |-> TRUE] /\ jer_result = [called |-> TRUE]
    /\ base_der = [called |-> TRUE] /\ base_jer = [called |-> TRUE]
    /\ der_metric = NoMetric /\ jer_metric = NoMetric /\ score_log = <<>>

\* rttm_to_annotation on every file of at most MaxLines lines.
InitRttm ==
    /\ rttm_lines \in SeqsUpTo(RttmLineSet, MaxLines)
    /\ rttm_idx = 0
    /\ rttm_ann = EmptyAnnotation
    /\ rttm_pc = "reading"
    /\ HypIdle /\ CamIdle /\ ScoreIdle /\ AggIdle /\ SysIdle

NextRttm == ReadLine \/ RttmReturn

SpecRttm == InitRttm /\ [][NextRttm]_vars

\* hypothesis_to_annotation, and compute_all_metrics, on every hypothesis
\* record of at most MaxEntries entries.
InitHyp ==
    /\ hyp_record \in HypRecordSet
    /\ hyp_idx = 0
    /\ hyp_ann = EmptyAnnotation
    /\ hyp_pc = "reading"
    /\ cam_rttm \in CamRttmSet
    /\ cam_result = NoResult
    /\ RttmIdle /\ ScoreIdle /\ AggIdle /\ SysIdle

NextHyp == ReadEntry \/ HypReturn \/ ComputeAllMetrics

SpecHyp == InitHyp /\ [][NextHyp]_vars

ScoreStart ==
    /\ collar \in CollarSet
    /\ skip_overlap \in BOOLEAN
    /\ der_result = NoResult /\ jer_result = NoResult
    /\ base_der = NoResult /\ base_jer = NoResult
    /\ der_metric = NoMetric /\ jer_metric = NoMetric /\ score_log = <<>>
    /\ RttmIdle /\ HypIdle /\ CamIdle /\ AggIdle /\ SysIdle

\* A reference scored against an identical copy of itself or against an empty
\* hypothesis.
InitSelf ==
    /\ reference \in AnnotationsUpTo(MaxSegments)
    /\ hypothesis \in {reference, EmptyAnnotation}
    /\ ScoreStart

NextScore == ComputeDer \/ ComputeJer

SpecSelf == InitSelf /\ [][NextScore]_vars

\* Every pair of a reference and a hypothesis with at most MaxTracks segments
\* together.
InitPairs ==
    /\ reference \in AnnotationsUpTo(MaxTracks)
    /\ hypothesis \in AnnotationsUpTo(MaxTracks)
    /\ Cardinality(DOMAIN reference) + Cardinality(DOMAIN hypothesis) <= MaxTracks
    /\ ScoreStart

NextRelabel == ComputeDer \/ ComputeJer \/ Relabel

SpecRelabel == InitPairs /\ [][NextRelabel]_vars

\* The annotations with at most n segments inside [0, T].
AnnotationsWithin(T, n) ==
    UNION {[D -> {"A", "B"}] :
             D \in {S \in SUBSET {seg \in GridSegments : seg.end <= T} :
                       Cardinality(S) <= n}}

\* compute_der and compute_jer on every pair of a reference and a
\* hypothesis with at most MaxScoreTracks segments together.
InitScore ==
    /\ reference \in AnnotationsWithin(MaxScoreTime, MaxScoreTracks)
    /\ hypothesis \in AnnotationsWithin(MaxScoreTime, MaxScoreTracks)
    /\ Cardinality(DOMAIN reference) + Cardinality(DOMAIN hypothesis) <= MaxScoreTracks
    /\ ScoreStart

SpecScore == InitScore /\ [][NextScore]_vars

\* The collars a pair is scored under: none, the default and twice the default.
WideCollarSet == {0, DefaultCollar, 2 * DefaultCollar}

\* Two turns one after the other, [0, a) of speaker first and [a, b) of
\* speaker second, inside [0, T].
TwoTurns(T, first, second) ==
    {[seg \in {Segment(0, cut.a), Segment(cut.a, cut.b)} |->
         IF seg.start = 0 THEN first ELSE second] :
       cut \in {c \in [a : 1..(T - 1), b : 2..T] : c.a < c.b}}

\* A reference in which the speaker changes once, and a hypothesis of two
\* turns with any labels.
Conversations(T) ==
    [reference : TwoTurns(T, "A", "B"),
     hypothesis : UNION {TwoTurns(T, x, y) : x \in {"A", "B"}, y \in {"A", "B"}}]

\* compute_der on every pair with at most MaxCollarTracks segments together
\* and on every conversation, under every collar of WideCollarSet.
InitCollar ==
    /\ \/ /\ reference \in AnnotationsWithin(MaxCollarTime, MaxCollarTracks)
          /\ hypothesis \in AnnotationsWithin(MaxCollarTime, MaxCollarTracks)
          /\ Cardinality(DOMAIN reference) + Cardinality(DOMAIN hypothesis)
                 <= MaxCollarTracks
       \/ \E pair \in Conversations(MaxTurnTime) :
             reference = pair.reference /\ hypothesis = pair.hypothesis
    /\ collar \in WideCollarSet
    /\ skip_overlap \in BOOLEAN
    /\ der_result = NoResult /\ jer_result = NoResult
    /\ base_der = NoResult /\ base_jer = NoResult
    /\ der_metric = NoMetric /\ jer_metric = NoMetric /\ score_log = <<>>
    /\ RttmIdle /\ HypIdle /\ CamIdle /\ AggIdle /\ SysIdle

SpecCollar == InitCollar /\ [][NextScore]_vars

\* run_and_save.py lines 167-168: compute_der, then compute_jer on the same
\* pair.
ComputeJerAfterDer == der_result.called /\ ComputeJer

NextAgain == ComputeDer \/ ComputeJerAfterDer \/ ScoreNext \/ AllMetricsNext

\* The first pair of files, scored under any collar and skip_overlap.
InitAgain ==
    /\ reference \in FileAnnotations
    /\ hypothesis \in FileAnnotations
    /\ ScoreStart

\* Pairs of files scored one after the other, MaxCalls calls in all.
SpecAgain == InitAgain /\ [][NextAgain]_vars

\* __init__: a new MetricAggregator, then any calls of its three methods.
InitAgg ==
    /\ agg_metrics = <<>>
    /\ agg_log = <<>>
    /\ add_ret = NoResult /\ per_file_ret = NoResult
    /\ agg_cur = NoResult /\ agg_old = NoResult
    /\ RttmIdle /\ HypIdle /\ CamIdle /\ ScoreIdle /\ SysIdle

NextAgg == Add \/ Aggregate \/ GetPerFileMetrics

SpecAgg == InitAgg /\ [][NextAgg]_vars

\* The tables just created, then sessions that add a row or delete a benchmark.
InitDb ==
    /\ db = EmptyDb
    /\ MgrIdle /\ lib_components = <<>> /\ sess = NoCoroutines /\ job = NoJob /\ sched = NoSched
    /\ RttmIdle /\ HypIdle /\ CamIdle /\ ScoreIdle /\ AggIdle

NextDb ==
    \/ CreateTablesBegin \/ CreateAllCheck \/ CreateTables
    \/ DropTablesBegin \/ DropAllCheck \/ DropTables
    \/ CommitInsert \/ FlushBenchmarkRow \/ CommitBenchmarkWithDataset
    \/ DeleteLoad \/ CommitDelete

SpecDb == InitDb /\ [][NextDb]_vars

\* The module just imported, then any calls of get_db_manager and close_db.
InitMgr ==
    /\ MgrIdle
    /\ db = EmptyDb /\ lib_components = <<>> /\ sess = NoSession /\ job = NoJob /\ sched = NoSched
    /\ RttmIdle /\ HypIdle /\ CamIdle /\ ScoreIdle /\ AggIdle

NextMgr == GetDbManager \/ CloseDb \/ CloseDbResume \/ ManagerClose

SpecMgr == InitMgr /\ [][NextMgr]_vars

\* The component names of the two naming conventions compute_der reads.
ComponentKeys ==
    {"false negative", "miss", "false positive", "false alarm", "confusion", "total"}

\* The components a metrics library may return: any of the names, each with
\* a duration.
ComponentsSet ==
    UNION {[keys -> 0..MaxComponent] : keys \in SUBSET ComponentKeys}

InitKeys ==
    /\ lib_components \in ComponentsSet
    /\ reference = EmptyAnnotation /\ hypothesis = EmptyAnnotation
    /\ collar = DefaultCollar /\ skip_overlap = FALSE
    /\ der_result = NoResult /\ jer_result = [called |-> TRUE]
    /\ base_der = [called |-> TRUE] /\ base_jer = [called |-> TRUE]
    /\ der_metric = NoMetric /\ jer_metric = NoMetric /\ score_log = <<>>
    /\ db = EmptyDb /\ MgrIdle /\ sess = NoSession /\ job = NoJob /\ sched = NoSched
    /\ RttmIdle /\ HypIdle /\ CamIdle /\ AggIdle

SpecKeys == InitKeys /\ [][ComputeDerFrom]_vars

\* No session yet; then `async with db_manager.session()` blocks, one after
\* the other, on the same database.
InitSession ==
    /\ sess = NoSession /\ job = NoJob /\ sched = NoSched
    /\ db = EmptyDb /\ MgrIdle /\ lib_components = <<>>
    /\ RttmIdle /\ HypIdle /\ CamIdle /\ ScoreIdle /\ AggIdle

NextSession == SessionEnter \/ BodyAdd \/ BodyExit \/ Commit \/ Rollback \/ Close

SpecSession == InitSession /\ [][NextSession]_vars

\* An empty database, then executions of run_benchmark_with_save one after
\* the other.
InitJob ==
    /\ job = NoJob /\ sched = NoSched
    /\ sess = NoSession
    /\ db = EmptyDb /\ MgrIdle /\ lib_components = <<>>
    /\ RttmIdle /\ HypIdle /\ CamIdle /\ ScoreIdle /\ AggIdle

\* run_benchmark_with_save called in one process, call after call.
NextJob ==
    \/ JobStart
    \/ SelectDataset \/ SelectBenchmark \/ FlushBenchmark \/ FlushDataset
    \/ CommitDataset \/ InsertRun \/ CommitRun \/ RefreshRun \/ ChildCheckAudioDir
    \/ Diarize \/ Score \/ SelectAudioFile \/ FlushAudioFile \/ InsertResults
    \/ CommitResults \/ SelectRun \/ CommitCompleted

SpecJob == InitJob /\ [][NextJob]_vars

InitSched ==
    /\ sched = NoSched
    /\ job = NoJob /\ sess = NoSession
    /\ db = EmptyDb /\ MgrIdle /\ lib_components = <<>>
    /\ RttmIdle /\ HypIdle /\ CamIdle /\ ScoreIdle /\ AggIdle

NextSched ==
    \/ MainSimple \/ MainConfig
    \/ RunOnce \/ Wake \/ StartBenchmark \/ ChildNext \/ EndBenchmark \/ Tick

SpecSched == InitSched /\ [][NextSched]_vars

\* The event loop goes on with its passes and runs the handles of its queue,
\* subprocess.run returns when the child has exited or been killed at the
\* timeout, and time does not stop: however often a child exits at once,
\* half an hour passes again and again.
SpecSchedLive ==
    /\ SpecSched
    /\ WF_vars(RunOnce) /\ WF_vars(Wake) /\ WF_vars(StartBenchmark)
    /\ WF_vars(EndBenchmark) /\ SF_vars(Tick)

-----------------------------------------------------------------------------
(* Claims *)

\* The whitespace-separated fields of a line of text.
Fields(line) == SelectSeq(line, IsNotWhitespace)

\* A line the lenient parse must pass over: blank, starting with '#', with
\* fewer than 8 fields, or whose first field is not SPEAKER.
Skippable(line) ==
    \/ Fields(line) = <<>>
    \/ line[1] \in HashTokens
    \/ Len(Fields(line)) < 8
    \/ Fields(line)[1] # "SPEAKER"

\* A well-formed SPEAKER record: not skippable, start and duration numeric.
ValidLine(line) ==
    /\ ~Skippable(line)
    /\ IsFloat(Fields(line)[4]) /\ IsFloat(Fields(line)[5])

\* The labelled segment a valid line stands for.
LineTrack(line) ==
    [start |-> Float(Fields(line)[4]),
     end   |-> Float(Fields(line)[4]) + Float(Fields(line)[5]),
     label |-> Fields(line)[8]]

ValidLinesOf(lines, n) == {i \in 1..n : ValidLine(lines[i])}

\* C1: rttm_to_annotation never raises on a blank line, a '#' line, a line
\* with fewer than 8 fields or a line whose first field is not SPEAKER; the
\* timeline holds segments of the remaining lines only, and the file of one
\* comment, one short line and one valid line yields exactly the valid
\* line's segment.
C1_SkippedLinesAddNothing ==
    /\ rttm_pc \notin {"idle", "reading", "returned"}
           => ~Skippable(rttm_lines[rttm_idx + 1])
    /\ rttm_pc = "returned" => rttm_idx = Len(rttm_lines)
    /\ Tracks(rttm_ann) \subseteq
           {LineTrack(rttm_lines[i]) : i \in ValidLinesOf(rttm_lines, rttm_idx)}
    /\ (rttm_lines = <<LineComment, LineShort, LineA>> /\ rttm_pc = "returned")
           => Tracks(rttm_ann) = {[start |-> 0, end |-> 20, label |-> "A"]}

C1_Witness ==
    /\ rttm_lines = <<LineComment, LineShort, LineA>>
    /\ rttm_pc = "returned"
    /\ Tracks(rttm_ann) = {[start |-> 0, end |-> 20, label |-> "A"]}

\* C2: a malformed RTTM line is never an error: rttm_to_annotation raises on
\* no input, whatever its lines.
C2_MalformedLineNeverAnError == rttm_pc \in {"idle", "reading", "returned"}

\* C3: the returned timeline has exactly one labelled segment per valid
\* SPEAKER line, also when two valid lines carry the same start and duration.
C3_OneSegmentPerValidLine ==
    rttm_pc = "returned" =>
        Cardinality(Tracks(rttm_ann)) =
            Cardinality(ValidLinesOf(rttm_lines, Len(rttm_lines)))

\* C4: every valid line yields the segment [start, start + duration) labelled
\* with its 8th field; the two lines (0.0, 2.5, A) and (2.5, 3.0, B) yield
\* exactly (0.0, 2.5, A) and (2.5, 5.5, B).
C4_EachValidLineYieldsItsSegment ==
    rttm_pc = "returned" =>
        /\ \A i \in ValidLinesOf(rttm_lines, Len(rttm_lines)) :
               LineTrack(rttm_lines[i]) \in Tracks(rttm_ann)
        /\ rttm_lines = <<LineA, LineB>> =>
               Tracks(rttm_ann) = {[start |-> 0, end |-> 20, label |-> "A"],
                                   [start |-> 20, end |-> 44, label |-> "B"]}

\* The labelled segment an entry of "segments" stands for.
EntryTrack(entry) ==
    [start |-> entry["start"], end |-> entry["end"], label |-> entry["speaker"]]

\* C5: hypothesis_to_annotation returns an empty timeline for a record
\* without "segments"; otherwise one labelled segment per entry, with the
\* entry's start, end and speaker.
C5_OneSegmentPerEntry ==
    hyp_pc = "returned" =>
        LET entries == SegmentsOf(hyp_record)
        IN  /\ "segments" \notin DOMAIN hyp_record => Tracks(hyp_ann) = {}
            /\ Tracks(hyp_ann) = {EntryTrack(entries[i]) : i \in DOMAIN entries}
            /\ Cardinality(Tracks(hyp_ann)) = Len(entries)

\* The entries that lack "start", "end" or "speaker".
BadEntries(record) ==
    {i \in DOMAIN SegmentsOf(record) :
        {"start", "end", "speaker"} \ DOMAIN SegmentsOf(record)[i] # {}}

\* C6: when an entry lacks start, end or speaker, hypothesis_to_annotation
\* stops at the first such entry with KeyError and never returns a timeline,
\* and compute_all_metrics returns no metrics; without such an entry there is
\* no KeyError.
C6_MissingKeyRaisesKeyError ==
    LET bad == BadEntries(hyp_record)
    IN  /\ bad # {} =>
            /\ hyp_pc \in {"reading", "KeyError"}
            /\ hyp_idx < MinOf(bad)
            /\ hyp_pc = "KeyError" => hyp_idx = MinOf(bad) - 1
            /\ cam_result.called =>
                   /\ cam_result.raised \in {"KeyError", "ValueError"}
                   /\ cam_result.raised = "ValueError" =>
                          \E i \in DOMAIN cam_rttm : ~Skippable(cam_rttm[i])
                                                      /\ ~ValidLine(cam_rttm[i])
                   /\ "metrics" \notin DOMAIN cam_result
        /\ bad = {} =>
            /\ hyp_pc \in {"reading", "returned"}
            /\ cam_result.called => cam_result.raised # "KeyError"

C6_Witness ==
    /\ hyp_pc = "KeyError"
    /\ hyp_idx >= 1
    /\ hyp_ann # EmptyAnnotation
    /\ cam_result.called
    /\ cam_result.raised = "KeyError"

Zero == Ratio(0, 1)

One == Ratio(1, 1)

\* C7: a non-empty reference scored against an identical copy of itself has
\* DER 0 with miss, false_alarm and confusion 0, and JER 0.
C7_IdentityScoresZero ==
    (reference # EmptyAnnotation /\ hypothesis = reference) =>
        /\ der_result.called =>
               /\ der_result.DER = Zero
               /\ der_result.miss = 0
               /\ der_result.false_alarm = 0
               /\ der_result.confusion = 0
        /\ jer_result.called =>
               /\ jer_result.raised = "None"
               /\ jer_result.JER = Zero

C7_Witness ==
    /\ hypothesis = reference
    /\ Cardinality({reference[seg] : seg \in DOMAIN reference}) = 2
    /\ collar = DefaultCollar
    /\ der_result.called /\ jer_result.called
    /\ der_result.total > 0
    /\ der_result.DER = Zero /\ jer_result.JER = Zero

\* C8: a non-empty reference scored against an empty hypothesis has
\* confusion 0, false_alarm 0, miss equal to total and DER 1.
C8_TotalMiss ==
    (reference # EmptyAnnotation /\ hypothesis = EmptyAnnotation
        /\ der_result.called) =>
        /\ der_result.confusion = 0
        /\ der_result.false_alarm = 0
        /\ der_result.miss = der_result.total
        /\ der_result.DER = One

\* C9: in every result of compute_der with total > 0, DER equals
\* (miss + false_alarm + confusion) / total of the same dictionary.
C9_DerIsErrorsOverTotal ==
    (der_result.called /\ der_result.total > 0) =>
        der_result.DER =
            Ratio(der_result.miss + der_result.false_alarm + der_result.confusion,
                  der_result.total)

\* C10: renaming the hypothesis labels by a bijection leaves the result of
\* compute_der (DER, miss, false_alarm, confusion, total) and of compute_jer
\* unchanged.
C10_LabelInvariance ==
    /\ (base_der.called /\ der_result.called) => der_result = base_der
    /\ (base_jer.called /\ jer_result.called) => jer_result = base_jer

\* The cell [t, t+1) lies within col/2 of a boundary of a reference segment.
NearBoundary(ref, col, t) ==
    \E seg \in DOMAIN ref : \E b \in {seg.start, seg.end} :
        2 * b - col <= 2 * t /\ 2 * t + 2 <= 2 * b + col

\* The cell is inside two different reference segments.
Overlapped(ref, t) ==
    \E x, y \in DOMAIN ref : x # y /\ Covers(x, t) /\ Covers(y, t)

\* No reference speech is scored: every cell of every reference segment is
\* removed by the collar or by skip_overlap (an empty reference has none).
NoScoredReference ==
    \A seg \in DOMAIN reference : \A t \in seg.start..(seg.end - 1) :
        \/ collar > 0 /\ NearBoundary(reference, collar, t)
        \/ skip_overlap /\ Overlapped(reference, t)

\* C11: scoring an empty reference, or one with no scored reference speech,
\* is not an error: compute_der returns its dictionary with total = 0 (and a
\* DER of 0 or 1), so that a caller can detect the undefined DER from total.
C11_DegenerateInputHasTotalZero ==
    (der_result.called /\ NoScoredReference) =>
        /\ DOMAIN der_result =
               {"called", "DER", "miss", "false_alarm", "confusion", "total"}
        /\ der_result.total = 0
        /\ der_result.DER \in {Zero, One}

C11_Witness ==
    /\ der_result.called
    /\ reference = EmptyAnnotation
    /\ hypothesis # EmptyAnnotation
    /\ der_result.total = 0
    /\ der_result.DER = One


RatioLeq(x, y) == x.num * y.den <= y.num * x.den

\* The scored cells that carry a miss, a false alarm or a confusion under the
\* given mapping.
ErrorCellsUnder(ref, hyp, mapping, cells) ==
    {t \in cells :
        LET d == IdentificationComponents(ref, hyp, mapping, {t})
        IN  d["confusion"] + d["missed detection"] + d["false alarm"] > 0}

ErrorCellsIn(ref, hyp, cells) ==
    ErrorCellsUnder(ref, hyp, HungarianMapper(hyp, ref, cells), cells)

\* The cells in error when the pair is scored without a collar.
ErrorCells(ref, hyp, skip) == ErrorCellsIn(ref, hyp, UemCells(ref, hyp, 0, skip))

\* Every error of the pair lies within col/2 of a reference turn boundary.
ErrorsWithin(ref, hyp, col, skip) ==
    \A t \in ErrorCells(ref, hyp, skip) : NearBoundary(ref, col, t)

\* The errors of the pair lie at reference turn boundaries: each within the
\* reach of the widest collar, DefaultCollar (0.25 s) on either side of a
\* boundary of a reference segment.
ErrorsAtBoundaries(ref, hyp, skip) == ErrorsWithin(ref, hyp, 2 * DefaultCollar, skip)

ErrorDuration(result) == (result.DER.num * result.total) \div result.DER.den

C13_ComponentsNonNegative ==
    der_result.called =>
        /\ der_result.miss >= 0
        /\ der_result.false_alarm >= 0
        /\ der_result.confusion >= 0
        /\ der_result.total >= 0

C13_Witness ==
    /\ der_result.called
    /\ der_result.confusion > 0
    /\ der_result.total > der_result.confusion
    /\ Cardinality(DOMAIN hypothesis) = 2

\* Two entries of the log are the same call on the same arguments.
SameCall(e1, e2) ==
    /\ e1.call = e2.call
    /\ e1.reference = e2.reference /\ e1.hypothesis = e2.hypothesis
    /\ e1.call = "compute_der" =>
           e1.collar = e2.collar /\ e1.skip_overlap = e2.skip_overlap

\* C14: scoring is stateless: a call of compute_der or compute_jer leaves the
\* reference and the hypothesis as they were; two calls with the same
\* arguments return the same result, whatever was called before or between
\* them; and the metric object of a call holds that call's pair only: one
\* result, and nothing accumulated but the components of that pair.
C14_ScoringIsStateless ==
    /\ [][score_log' # score_log =>
              reference' = reference /\ hypothesis' = hypothesis]_vars
    /\ [](\A i, j \in DOMAIN score_log :
              SameCall(score_log[i], score_log[j]) =>
                  score_log[i].result = score_log[j].result)
    /\ [](der_metric # NoMetric =>
              /\ Len(der_metric.results) = 1
              /\ der_metric.accumulated = der_metric.results[1]
              /\ der_metric.results[1]
                     = DerComponents(reference, hypothesis, collar, skip_overlap)
                 \/ ~der_result.called)
    /\ [](jer_metric # NoMetric =>
              /\ Len(jer_metric.results) <= 1
              /\ jer_result.called /\ jer_result.raised = "None" =>
                     jer_metric.results = <<JerSpeakerErrors(reference, hypothesis)>>)

\* Three compute_der calls: the first and the last on the same arguments, the
\* one between them on other arguments and with another result, and errors in
\* every one of them.
C14_Witness ==
    \E i, j, k \in DOMAIN score_log :
        /\ i < j /\ j < k
        /\ score_log[i].call = "compute_der"
        /\ SameCall(score_log[i], score_log[k])
        /\ score_log[j].call = "compute_der"
        /\ ~SameCall(score_log[i], score_log[j])
        /\ score_log[j].result # score_log[i].result
        /\ score_log[i].result.total > 0 /\ score_log[j].result.total > 0
        /\ score_log[i].result.DER # Zero /\ score_log[j].result.DER # Zero
        /\ score_log[k].result = score_log[i].result
        /\ \E c \in DOMAIN score_log : score_log[c].call = "compute_jer"

\* 1 minus the mean Jaccard index over the union of the speaker identities:
\* a paired reference and hypothesis speaker count once, with the index
\* 1 - error of the pair; a speaker without a partner counts with index 0.
UnionJer(errors, identities) ==
    LET sum == SumRatios(errors)
    IN  Ratio((identities - Len(errors)) * sum.den + sum.num, identities * sum.den)

JerOverUnionIn(ref, hyp, mapping, cells) ==
    UnionJer(JerMappedErrors(ref, hyp, mapping, cells),
             Cardinality(CroppedLabels(ref, cells))
                 + Cardinality(CroppedLabels(hyp, cells))
                 - Cardinality(DOMAIN mapping))

JerOverUnionOn(ref, hyp, cells) ==
    JerOverUnionIn(ref, hyp, HungarianMapper(ref, hyp, cells), cells)

JerOverUnion(ref, hyp) == JerOverUnionOn(ref, hyp, UemCells(ref, hyp, 0, FALSE))

\* C15: JER is 1 minus the mean Jaccard index over the union of the reference
\* and hypothesis speakers, a speaker present in only one timeline counting
\* with index 0; a non-empty reference against an empty hypothesis has JER 1.
C15_JerOverUnionOfSpeakers ==
    (jer_result.called /\ jer_result.raised = "None") =>
        /\ jer_result.JER = JerOverUnion(reference, hypothesis)
        /\ hypothesis = EmptyAnnotation => jer_result.JER = One


\* The records the add() calls made so far should have left, in call order.
RecordsOfCalls == [i \in DOMAIN agg_log |-> [metrics |-> agg_log[i][1], file_id |-> agg_log[i][2]]]

\* C16: add appends exactly one record holding the metrics and file_id passed,
\* returns None and leaves the earlier records as they were; so the records,
\* and the list get_per_file_metrics returns, are one per add call in call order.
C16_AddAppendsOneRecord ==
    /\ [](/\ agg_metrics = RecordsOfCalls
          /\ add_ret.called => add_ret.value = "None"
          /\ per_file_ret.called => Deref(per_file_ret.object) = RecordsOfCalls)
    /\ [][agg_log' # agg_log =>
            /\ Len(agg_metrics') = Len(agg_metrics) + 1
            /\ SubSeq(agg_metrics', 1, Len(agg_metrics)) = agg_metrics]_vars

\* Three adds, two of them with the same file_id and one with none, and the
\* per-file list read.
C16_Witness ==
    /\ Len(agg_metrics) = MaxRecords
    /\ add_ret.called /\ per_file_ret.called
    /\ \E i, j \in DOMAIN agg_metrics :
          i < j /\ agg_metrics[i].file_id = agg_metrics[j].file_id
                /\ agg_metrics[i].metrics # agg_metrics[j].metrics
    /\ \E i \in DOMAIN agg_metrics : agg_metrics[i].file_id = "None"


\* C17: after any sequence of add calls, none included, the mapping returned
\* by aggregate() has num_files equal to the number of records added so far.
C17_NumFilesCountsRecords ==
    agg_cur.called =>
        /\ "num_files" \in DOMAIN agg_cur.value
        /\ agg_cur.value["num_files"] = agg_cur.adds


\* C18: aggregate() leaves the records as they are, builds a new mapping on
\* each call, and two calls with no add() between them return equal mappings.
C18_AggregateIsPure ==
    /\ [][agg_cur' # agg_cur => agg_metrics' = agg_metrics /\ agg_log' = agg_log]_vars
    /\ []((agg_cur.called /\ agg_old.called) =>
            /\ agg_cur.id # agg_old.id
            /\ agg_cur.adds = agg_old.adds => agg_cur.value = agg_old.value)

\* Two aggregate() calls in a row over two or more records with statistics.
C18_Witness ==
    /\ agg_cur.called /\ agg_old.called
    /\ agg_cur.adds = agg_old.adds
    /\ Len(agg_metrics) >= 2
    /\ "DER_mean" \in DOMAIN agg_cur.value
    /\ agg_cur.value["num_files"] = Len(agg_metrics)


\* The add() calls made before the last aggregate() call.
CallsAggregated == SubSeq(agg_log, 1, agg_cur.adds)

\* The calls among `calls` whose metrics hold an int or a float under `key`.
HoldingNumber(calls, key) ==
    {i \in DOMAIN calls :
        /\ key \in DOMAIN calls[i][1]
        /\ calls[i][1][key].type \in {"int", "float"}}

\* The number call i passed under `key`, in hundredths.
NumberPassed(calls, key, i) ==
    IF calls[i][1][key].type = "int" THEN 100 * calls[i][1][key].value
    ELSE calls[i][1][key].value

RECURSIVE SumOver(_, _)
SumOver(I, f) ==
    IF I = {} THEN 0
    ELSE LET i == CHOOSE j \in I : TRUE IN f[i] + SumOver(I \ {i}, f)

\* The five statistics of `result` under `key` are those of the numbers x[i].
StatisticsOfNumbers(result, key, x) ==
    LET I == DOMAIN x
        n == Cardinality(I)
        S == SumOver(I, x)
        mean == result[key \o "_mean"]
        std == result[key \o "_std"].sqrt_of
        min == result[key \o "_min"]
        max == result[key \o "_max"]
        median == result[key \o "_median"]
        atMost(r) == Cardinality({i \in I : RatioLeq(Ratio(x[i], 1), r)})
        atLeast(r) == Cardinality({i \in I : RatioLeq(r, Ratio(x[i], 1))})
    IN  /\ mean.num * n = S * mean.den
        /\ min.den = 1 /\ (\E i \in I : x[i] = min.num) /\ (\A i \in I : min.num <= x[i])
        /\ max.den = 1 /\ (\E i \in I : x[i] = max.num) /\ (\A i \in I : x[i] <= max.num)
        /\ 2 * atMost(median) >= n /\ 2 * atLeast(median) >= n
        /\ n % 2 = 1 => \E i \in I : Ratio(x[i], 1) = median
        /\ n % 2 = 0 => \E i, j \in I :
                            /\ i # j /\ median = Ratio(x[i] + x[j], 2)
                            /\ \A k \in I \ {i, j} : x[k] <= x[i] \/ x[j] <= x[k]
        /\ n < 2 => std = Zero
        /\ n >= 2 => std.num * n * n * (n - 1) =
                        std.den * SumOver(I, [i \in I |-> (n * x[i] - S) * (n * x[i] - S)])
        /\ RatioLeq(min, median) /\ RatioLeq(median, max)
        /\ RatioLeq(min, mean) /\ RatioLeq(mean, max)

\* The statistics of `result` are those of the numbers passed in `calls`.
StatisticsOfCalls(result, calls) ==
    \A key \in UNION {DOMAIN calls[i][1] : i \in DOMAIN calls} :
        HoldingNumber(calls, key) # {} =>
            /\ {key \o "_mean", key \o "_std", key \o "_min", key \o "_max",
                 key \o "_median"} \subseteq DOMAIN result
            /\ StatisticsOfNumbers(result, key,
                    [i \in HoldingNumber(calls, key) |-> NumberPassed(calls, key, i)])

\* The per-file DER values 0.10, 0.20, 0.30, in any order.
IsTheExample(calls) ==
    /\ Len(calls) = 3
    /\ \A i \in DOMAIN calls : DOMAIN calls[i][1] = {"DER"} /\ calls[i][1]["DER"].type = "float"
    /\ {calls[i][1]["DER"].value : i \in DOMAIN calls} = {10, 20, 30}

\* C19: for every key with a numeric value in some added record, aggregate()
\* returns its mean, std, min, max and median over exactly the numeric values
\* of the key, with std 0 for fewer than 2 values, min <= median <= max and
\* min <= mean <= max; DER values 0.10, 0.20, 0.30 give mean 0.20, min 0.10,
\* max 0.30, median 0.20 and count 3.
C19_StatisticsOverNumericValues ==
    agg_cur.called =>
        /\ StatisticsOfCalls(agg_cur.value, CallsAggregated)
        /\ IsTheExample(CallsAggregated) =>
              /\ agg_cur.value["DER_mean"] = Ratio(20, 1)
              /\ agg_cur.value["DER_min"] = Ratio(10, 1)
              /\ agg_cur.value["DER_max"] = Ratio(30, 1)
              /\ agg_cur.value["DER_median"] = Ratio(20, 1)
              /\ agg_cur.value["num_files"] = 3

\* aggregate() called on the three records with DER 0.10, 0.20 and 0.30.
C19_Witness ==
    /\ agg_cur.called
    /\ IsTheExample(CallsAggregated)
    /\ agg_cur.value["DER_std"] = [sqrt_of |-> Ratio(100, 1)]

\* aggregate() called on records where a key holds an int in one record, a
\* float in another, and a third value that is no number.
MixedValuesAggregated ==
    /\ agg_cur.called
    /\ Cardinality(HoldingNumber(CallsAggregated, "JER")) = 2
    /\ Cardinality(HoldingNumber(CallsAggregated, "DER")) = 1
    /\ agg_cur.adds = 2


\* C20: once aggregate() has been called the records are never changed: no
\* later add() changes the record list or what a later aggregate() returns.
C20_NeverMutatedAfterAggregate ==
    /\ [][agg_cur.called => agg_metrics' = agg_metrics]_vars
    /\ []((agg_cur.called /\ agg_old.called) => agg_cur.value = agg_old.value)


\* The ids of the rows of `table` whose column `column` holds one of `ids`.
Referencing(d, table, column, ids) == {r.id : r \in {x \in d.rows[table] : x[column] \in ids}}

\* Nothing that hung below the benchmark in `before` is left in `after`.
NothingLeftBelow(before, after, benchmark_id) ==
    LET ds == Referencing(before, "datasets", "benchmark_id", {benchmark_id})
        afs == Referencing(before, "audio_files", "dataset_id", ds)
        rs == Referencing(before, "runs", "dataset_id", ds)
    IN  /\ Referencing(after, "datasets", "benchmark_id", {benchmark_id}) = {}
        /\ Referencing(after, "audio_files", "dataset_id", ds) = {}
        /\ Referencing(after, "annotations", "audio_file_id", afs) = {}
        /\ Referencing(after, "runs", "dataset_id", ds) = {}
        /\ Referencing(after, "results", "run_id", rs) = {}

\* C21: once a Benchmark is deleted and the session committed, no Dataset
\* referencing it is left, nor any AudioFile, Annotation, Run or Result of
\* those datasets; and in every committed state each Dataset's benchmark_id
\* is the id of an existing Benchmark.
C21_CascadeDelete ==
    /\ [](\A x \in db.rows["datasets"] : x.benchmark_id \in Ids(db, "benchmarks"))
    /\ [][\A b \in Ids(db, "benchmarks") \ Ids(db', "benchmarks") :
            NothingLeftBelow(db, db', b)]_vars

\* Every table had a row, the first benchmark was deleted, and only the other
\* benchmark and its dataset are left.
C21_Witness ==
    /\ \A t \in Tables : db.seq[t] >= 1
    /\ Ids(db, "benchmarks") = {2}
    /\ Referencing(db, "datasets", "benchmark_id", {2}) # {}
    /\ db.seq["datasets"] = 2
    /\ \A t \in Tables \ {"benchmarks", "datasets"} : db.rows[t] = {}


\* The latest call was get_db_manager and it raised / returned.
GetRaised(ret) == ret.call = "get_db_manager" /\ "raised" \in DOMAIN ret.out

GetReturned(ret) == ret.call = "get_db_manager" /\ "returned" \in DOMAIN ret.out

\* The latest call was close_db and it returned.
CloseReturned(ret) == ret.call = "close_db" /\ ret.out = "returned"

\* C22: get_db_manager keeps one global DatabaseManager.  With the global
\* unset a call creates it from database_url, or raises ValueError and leaves
\* it unset when database_url is None; with the global set every call returns
\* that instance whatever its arguments; a close_db that returns has disposed
\* the instance it found and left the global unset, and the next call creates
\* a new instance.  Nothing else changes the global, and the instance a
\* returning close_db takes out of the global is the one it disposed unless
\* that close_db had found another instance before its await.
C22_OneGlobalManager ==
    /\ [](GetRaised(mgr_ret) =>
            (mgr_ret.out.raised = "ValueError" /\ db_manager = NoManager))
    /\ [](GetReturned(mgr_ret) =>
            (mgr_ret.out.returned # NoManager /\ mgr_ret.out.returned = db_manager))
    /\ [](CloseReturned(mgr_ret) =>
            /\ db_manager = NoManager
            /\ mgr_ret.found # Null => mgr_ret.found \in disposed)
    /\ [][/\ (mgr_ret'.call = "get_db_manager" /\ db_manager = NoManager) =>
                IF mgr_ret'.database_url = "None" THEN GetRaised(mgr_ret')
                ELSE /\ GetReturned(mgr_ret')
                     /\ mgr_ret'.out.returned.id > managers_made
                     /\ mgr_ret'.out.returned.database_url = mgr_ret'.database_url
          /\ (mgr_ret'.call = "get_db_manager" /\ db_manager # NoManager) =>
                /\ GetReturned(mgr_ret')
                /\ mgr_ret'.out.returned = db_manager
          /\ db_manager' # db_manager =>
                IF db_manager = NoManager THEN GetReturned(mgr_ret')
                ELSE /\ CloseReturned(mgr_ret')
                     /\ db_manager' = NoManager
                     /\ mgr_ret'.found = db_manager.id => db_manager.id \in disposed']_vars

\* The first manager was closed, a second one created from another url, and
\* a later call without a url got that second one.
C22_Witness ==
    /\ 1 \in disposed
    /\ db_manager # NoManager
    /\ db_manager.id = 2
    /\ db_manager.database_url = "postgresql://other"
    /\ GetReturned(mgr_ret)
    /\ mgr_ret.database_url = "None"
    /\ mgr_ret.out.returned = db_manager


\* The first of `names` the library's components hold, else `default`.
FirstPresent(names, default) ==
    IF \E i \in DOMAIN names : names[i] \in DOMAIN lib_components
    THEN lib_components[names[MinOf({i \in DOMAIN names : names[i] \in DOMAIN lib_components})]]
    ELSE default

\* C23: compute_der reports miss from "false negative", else from "miss",
\* else 0.0; false_alarm from "false positive", else "false alarm", else 0.0;
\* confusion, else 0.0; total, else 1.0.
C23_ComponentKeyFallbacks ==
    der_result.called =>
        /\ der_result.miss = FirstPresent(<<"false negative", "miss">>, 0)
        /\ der_result.false_alarm = FirstPresent(<<"false positive", "false alarm">>, 0)
        /\ der_result.confusion = FirstPresent(<<"confusion">>, 0)
        /\ der_result.total = FirstPresent(<<"total">>, OneSecond)

\* Both names of the missed speech are there with different durations, the
\* false alarm only under its second name, and there is no total.
C23_Witness ==
    /\ der_result.called
    /\ DOMAIN lib_components = {"false negative", "miss", "false alarm"}
    /\ lib_components["false negative"] = 0 /\ lib_components["miss"] = 1
    /\ lib_components["false alarm"] = 1
    /\ der_result.miss = 0 /\ der_result.false_alarm = 1
    /\ der_result.total = OneSecond


\* The number of times `call` was made on the session.
CallsOf(call) == Cardinality({i \in DOMAIN sess.log : sess.log[i] = call})

\* C24: session() commits when its body exits normally; when the body or the
\* commit raises it rolls the session back and the same exception leaves the
\* block; on every path the session is closed, after the commit or rollback.
C24_CommitOrRollbackThenClose ==
    /\ [](sess.pc = "exited" =>
            /\ CallsOf("close") = 1 /\ sess.log[Len(sess.log)] = "close"
            /\ sess.exc = "None" => sess.log = <<"commit", "close">>
            /\ sess.exc \in Exceptions =>
                  sess.log \in {<<"rollback", "close">>, <<"commit", "rollback", "close">>}
            /\ sess.exc # "None" => sess.work.rows = db.rows)
    /\ [][/\ (sess.pc = "commit" /\ sess'.pc = "finally") => db' = sess.work
          /\ db'.rows # db.rows => (sess.pc = "commit" /\ sess'.exc = "None")
          /\ (sess.pc \in {"except", "finally"}) => sess'.exc = sess.exc]_vars

\* A first block committed a benchmark; the commit of the second one raised,
\* was rolled back, and the session closed.
C24_Witness ==
    /\ sess.pc = "exited" /\ sess.n = 2
    /\ sess.exc = "IntegrityError"
    /\ sess.log = <<"commit", "rollback", "close">>
    /\ Cardinality(db.rows["benchmarks"]) = 1
    /\ db.seq["benchmarks"] = 2

\* A block whose body was cancelled: closed without a rollback() call, with
\* nothing of its work committed.
CancelledBlockClosed ==
    /\ sess.pc = "exited" /\ sess.exc = "CancelledError"
    /\ sess.log = <<"close">>
    /\ db.seq["benchmarks"] = 1 /\ db.rows["benchmarks"] = {}


\* The Run row of the current execution.
RunOfJob == CHOOSE r \in db.rows["runs"] : r.id = job.run_id

\* Sorted order of the file names that occur.
NameBefore(f, g) == f = "a.wav" /\ g = "b.wav"

\* The positions of the function inside one turn of the loop, from the top
\* of the turn to the commit of the file's results.
FilePcs ==
    {"loop", "score", "select_audio_file", "flush_audio_file", "insert_results",
     "commit_results"}

\* The loop of the current execution has been entered.
InLoop == job.pc \in FilePcs \cup {"complete"} \/ (job.pc = "returned" /\ job.i > 0)

ReturnedAtDirCheck ==
    /\ job.pc = "returned"
    /\ job.dataset_name \in DOMAIN DatasetConfigs
    /\ ~job.audio_dir_exists

StillRunning(r) == r.status = "running" /\ r.completed_at = Null

\* C26: the Run is committed as RUNNING before the audio directory is checked;
\* with the directory missing the function returns at the check, and the Run
\* stays RUNNING with completed_at unset for ever.
C26_MissingDirLeavesRunRunning ==
    /\ [](job.pc = "check_dir" =>
            \E r \in db.rows["runs"] : r.id = job.run_id /\ StillRunning(r))
    /\ [](ReturnedAtDirCheck =>
            /\ job.i = 0
            /\ \E r \in db.rows["runs"] : r.id = job.run_id /\ StillRunning(r))
    /\ [][(job.pc = "check_dir" /\ ~job.audio_dir_exists /\ job' # job) =>
            (job'.pc = "returned" /\ db' = db)]_vars
    /\ [][\A r \in db.rows["runs"] :
            (r.id # job.run_id \/ job.pc = "returned") => r \in db'.rows["runs"]]_vars

\* Two executions returned at the check: both Runs are there, still running.
C26_Witness ==
    /\ ReturnedAtDirCheck
    /\ job.n = 2 /\ job.run_id = 2
    /\ Cardinality(db.rows["runs"]) = 2
    /\ \A r \in db.rows["runs"] : StillRunning(r)


\* The Result rows of one (run_id, audio_file_id) pair.
ResultsOf(run_id, audio_file_id) ==
    {r \in db.rows["results"] : r.run_id = run_id /\ r.audio_file_id = audio_file_id}

BothOrNeither(rows) ==
    \/ rows = {}
    \/ /\ Cardinality(rows) = 2
       /\ {r.metric_name : r \in rows} = {"der", "jer"}

\* The Result rows of the current run for the file of this name.
ResultsOfFile(name) ==
    {r \in db.rows["results"] :
        /\ r.run_id = job.run_id
        /\ \E a \in db.rows["audio_files"] :
              /\ a.id = r.audio_file_id
              /\ a.dataset_id = job.dataset_id
              /\ a.file_path =
                    DatasetConfigs[job.dataset_name].audio_dir \o "/" \o name}

\* C27: the results of one file are saved atomically: a (run_id, audio_file_id)
\* pair has both a der and a jer Result or none, a new AudioFile row comes with
\* its two Results, and a file whose processing raised has no Result of the run.
C27_FileResultsAreAtomic ==
    /\ [](\A r \in db.rows["results"] :
              BothOrNeither(ResultsOf(r.run_id, r.audio_file_id)))
    /\ [](InLoop =>
              /\ \A k \in 1..(job.i - 1) :
                    IF \E j \in 1..Len(job.failed) : job.failed[j] = job.files[k]
                    THEN ResultsOfFile(job.files[k]) = {}
                    ELSE BothOrNeither(ResultsOfFile(job.files[k]))
                         /\ ResultsOfFile(job.files[k]) # {}
              /\ job.i <= Len(job.files) => ResultsOfFile(job.files[job.i]) = {})
    /\ [][\A a \in db'.rows["audio_files"] \ db.rows["audio_files"] :
              /\ ResultsOf(job.run_id, a.id)' # {}
              /\ db'.rows["audio_files"] \ db.rows["audio_files"] = {a}]_vars
    /\ [][(InLoop /\ job'.n = job.n /\ job'.failed # job.failed) =>
              db'.rows = db.rows]_vars

\* A run of two files: the first was saved, the commit of the second raised
\* after its rows had drawn their ids.
C27_Witness ==
    /\ job.pc = "returned"
    /\ Len(job.files) = 2
    /\ job.failed = <<job.files[2]>>
    /\ Len(job.all_der) = 2
    /\ Cardinality(db.rows["results"]) = 2
    /\ Cardinality(db.rows["audio_files"]) = 1
    /\ db.seq["results"] = 4
    /\ db.seq["audio_files"] = 2


\* No two rows of the table agree on the key.
UniqueBy(table, Key(_)) ==
    \A x, y \in db.rows[table] : Key(x) = Key(y) => x = y

BenchmarkKey(b) == b.name
DatasetKey(x) == x.name
AudioFileKey(a) == <<a.dataset_id, a.file_path>>

\* The positions of the function before the Run row is committed; it is
\* there when the database was out of reach and the function raised.
BeforeRunPcs ==
    {"get_or_create", "select_benchmark", "flush_benchmark", "flush_dataset",
     "commit_dataset", "insert_run", "commit_run", "raised"}

ConfigLoaded ==
    /\ job.pc # "idle"
    /\ job.dataset_name \in DOMAIN DatasetConfigs
    /\ ConfigComplete(DatasetConfigs[job.dataset_name])

LoopExists(t) == t \in DOMAIN sched.tasks

InBenchmark(t) == LoopExists(t) /\ sched.tasks[t].pc = "running"

Asleep(t) == LoopExists(t) /\ sched.tasks[t].pc = "sleeping"

\* The coroutine is on the queue of the event loop, to be resumed.
Queued(t) ==
    /\ LoopExists(t) /\ sched.tasks[t].pc = "ready"
    /\ \E k \in DOMAIN sched.ready : sched.ready[k] = StepOf(t)

\* The latest run of the loop did not succeed, and is over.
AfterFailure(t) ==
    /\ LoopExists(t) /\ ~InBenchmark(t)
    /\ sched.tasks[t].last \in {"failed", "timeout", "error"}

\* C28: run_benchmark never propagates a failure, so a schedule loop runs the
\* benchmark at once when it starts and again after every interval, for
\* ever, whatever the outcome of the runs before: a loop that exists gets
\* into a benchmark, every benchmark ends, and a loop that is not in a
\* benchmark, its last run failed, timed out or not, gets into one again.
C28_LoopsRunForEver ==
    /\ [](\A t \in DOMAIN sched.tasks :
            /\ sched.tasks[t].pc \in {"ready", "running", "sleeping"}
            /\ sched.tasks[t].last = "none" => (InBenchmark(t) \/ Queued(t)))
    /\ [][\A t \in DOMAIN sched.tasks :
            /\ (InBenchmark(t) /\ ~InBenchmark(t)') =>
                  IF sched.tasks[t].interval_hours = 0
                  THEN Queued(t)'
                  ELSE /\ Asleep(t)'
                       /\ sched'.tasks[t].remaining =
                             sched.tasks[t].interval_hours * TicksPerHour
            /\ (Asleep(t) /\ ~Asleep(t)') =>
                  (sched.tasks[t].remaining = 0 /\ Queued(t)')
            /\ (~InBenchmark(t) /\ InBenchmark(t)') => Queued(t)]_vars
    /\ \A t \in 1..MaxSchedules :
            /\ LoopExists(t) ~> InBenchmark(t)
            /\ InBenchmark(t) ~> ~InBenchmark(t)
            /\ AfterFailure(t) ~> InBenchmark(t)
            /\ (LoopExists(t) /\ ~InBenchmark(t)) ~> InBenchmark(t)

\* Two loops in config-driven mode.  The child of the first was killed at the
\* timeout between the INSERT of the results of a file and their COMMIT: its
\* Run is left running, two ids are spent and no result is there; the child
\* of the second failed; the first loop has slept for its hour and its next
\* child has started.
C28_Witness ==
    /\ sched.mode = "config" /\ Len(sched.tasks) = 2
    /\ InBenchmark(1) /\ sched.tasks[1].last = "timeout"
    /\ sched.tasks[1].interval_hours = 1
    /\ sched.tasks[2].last = "failed"
    /\ job.pc = "get_or_create" /\ ~job.exited
    /\ db.rows["runs"] = {[id |-> 1, dataset_id |-> 1, status |-> "running",
                           completed_at |-> Null]}
    /\ db.rows["results"] = {} /\ db.seq["results"] = 2

\* C29: in config-driven mode there is one task per enabled schedule, and at
\* most one benchmark child at any moment: while a child runs the event loop
\* is blocked, so no other task starts a benchmark or wakes from its sleep.
C29_OneChildAtATime ==
    /\ [](Cardinality(Running) <= 1)
    /\ [][(sched.mode = "idle" /\ sched'.mode = "config") =>
            \E config \in ScheduleConfigs :
               /\ config.exists
               /\ LET enabled == {k \in DOMAIN config.schedules :
                                     IsEnabled(config.schedules[k])}
                  IN  /\ Len(sched'.tasks) = Cardinality(enabled)
                      /\ \A k \in enabled :
                            \E t \in DOMAIN sched'.tasks :
                               /\ sched'.tasks[t].dataset = config.schedules[k].dataset
                               /\ sched'.tasks[t].interval_hours =
                                     config.schedules[k].interval_hours
                               /\ Queued(t)']_vars
    /\ [][Running # {} =>
            /\ \A t \in DOMAIN sched.tasks \ Running :
                  sched'.tasks[t].pc = sched.tasks[t].pc
            /\ Running' # {} =>
                  /\ sched'.ready = sched.ready
                  /\ sched'.timers = sched.timers
                  /\ sched'.todo = sched.todo]_vars

\* The child of the second task has run for the full hour; the sleep of the
\* first task has ended meanwhile, and its timer has not been looked at.
C29_Witness ==
    /\ sched.mode = "config" /\ Len(sched.tasks) = 2
    /\ InBenchmark(2) /\ sched.tasks[2].elapsed = Timeout
    /\ Asleep(1) /\ sched.tasks[1].remaining = 0
    /\ sched.tasks[1].interval_hours = 1
    /\ sched.timers = <<1>>
    /\ sched.ready = <<>>

=============================================================================
